---- MODULE Spec2Model ----
(***************************************************************************)
(* Checkout / order / payment state machine of the gvoiceus storefront     *)
(* (core/views.py, core/models.py).  Money is kept in hundredths (a        *)
(* DecimalField with decimal_places=2); text that the code searches with   *)
(* `in` is kept as a sequence of one-character strings.                    *)
(***************************************************************************)
EXTENDS Integers, Sequences, FiniteSets, TLC

VARIABLES
    settings,     \* Django settings read by the handlers
    cartItems,    \* CartItem rows: user -> product -> quantity (0 = no row)
    orders,       \* Order rows, in creation order (data: the payloads kept)
    payments,     \* Payment rows, in creation order (created_at ascending)
    resp,         \* the response to the last request handled
    requests      \* requests being handled step by step: position and locals

vars == <<settings, cartItems, orders, payments, resp, requests>>

-----------------------------------------------------------------------------
(* Bounds of the exploration *)

MaxOrders == 2
MaxCartQty == 1

-----------------------------------------------------------------------------
(* Users, catalogue, identifiers *)

Users == {"alice", "bob"}
Anonymous == "anon"
Requesters == Users \cup {Anonymous}

NoValue == "<none>"

\* Product rows (models.Product): price in hundredths, stock 0 = untracked.
Product ==
    [ pA |-> [price |-> 1000, currency |-> "USD", stock |-> 5, is_active |-> TRUE],
      pB |-> [price |-> 999,  currency |-> "EUR", stock |-> 0, is_active |-> TRUE],
      pC |-> [price |-> 5000, currency |-> "INR", stock |-> 0, is_active |-> TRUE],
      pD |-> [price |-> 8,    currency |-> "USD", stock |-> 1, is_active |-> TRUE],
      pE |-> [price |-> 500,  currency |-> "BDT", stock |-> 0, is_active |-> TRUE],
      pF |-> [price |-> 1000, currency |-> "USD", stock |-> 0, is_active |-> FALSE] ]

Products == DOMAIN Product

\* Iteration order of the CartItem queryset.
ProductOrder == <<"pA", "pB", "pC", "pD", "pE", "pF">>

\* Products offered to the shoppers of the main specification.
ShopProducts == {"pA"}

\* uuid4() primary keys: the i-th Order row gets the i-th value; the last
\* value is a well-formed UUID that no row ever has.
UuidSeq == <<"uuid-1", "uuid-2", "uuid-3", "uuid-4", "uuid-unknown">>
UuidSpace == {UuidSeq[i] : i \in 1..Len(UuidSeq)}
UnknownUuid == UuidSeq[Len(UuidSeq)]

\* Values of uuid4().hex[:8].upper() that _generate_order_code can return.
CodeSpace == {"GV-0000000A", "GV-0000000B"}
UnknownCode == "GV-FFFFFFFF"

OrderStatuses == {"pending", "paid", "failed", "cancelled", "expired"}
ProcessingChoices == {"running", "complete"}
PaymentStatuses ==
    {"created", "awaiting_manual_review", "processing", "succeeded", "failed", "cancelled"}

-----------------------------------------------------------------------------
(* Decimal helpers *)

Pow10(n) == IF n = 0 THEN 1 ELSE IF n = 1 THEN 10 ELSE IF n = 2 THEN 100
            ELSE IF n = 3 THEN 1000 ELSE 10000

\* _q2d: Decimal(x).quantize(Decimal("0.01")) under the default context
\* (ROUND_HALF_EVEN).  x = n / 10^scale, n >= 0; the result is in hundredths.
_q2d(n, scale) ==
    IF scale <= 2 THEN n * Pow10(2 - scale)
    ELSE LET unit == Pow10(scale - 2)
             q == n \div unit
             r == n % unit
         IN  IF 2 * r > unit THEN q + 1
             ELSE IF 2 * r < unit THEN q
             ELSE IF q % 2 = 0 THEN q ELSE q + 1

Min(a, b) == IF a < b THEN a ELSE b
Max(a, b) == IF a > b THEN a ELSE b

-----------------------------------------------------------------------------
(* The database as a value, so that a handler is a function of it *)

DB == [cartItems |-> cartItems, orders |-> orders, payments |-> payments]

EmptyCart == [p \in Products |-> 0]

\* Order.objects.get(order_code=code): the index of the row, 0 if none.
OrderByCode(db, code) ==
    IF \E i \in DOMAIN db.orders : db.orders[i].order_code = code
    THEN CHOOSE i \in DOMAIN db.orders : db.orders[i].order_code = code
    ELSE 0

\* Order.objects.get(id=x) for a well-formed UUID x: the index, 0 if none.
OrderById(db, x) ==
    IF \E i \in DOMAIN db.orders : db.orders[i].id = x
    THEN CHOOSE i \in DOMAIN db.orders : db.orders[i].id = x
    ELSE 0

\* order.payments.order_by("-created_at").first(): index of the row, 0 if none.
LatestPayment(db, o) ==
    LET mine == {i \in DOMAIN db.payments : db.payments[i].order = db.orders[o].id}
    IN  IF mine = {} THEN 0 ELSE CHOOSE i \in mine : \A j \in mine : j <= i

\* cart.items.all().delete() for the cart of user u.
ClearCart(db, u) ==
    IF u \in Users THEN [db EXCEPT !.cartItems[u] = EmptyCart] ELSE db

\* The second _cart_count of views.py (it replaces the first at import).
_cart_count(db, requester) ==
    IF requester = Anonymous THEN 0
    ELSE LET RECURSIVE Sum(_)
             Sum(i) == IF i = 0 THEN 0
                       ELSE db.cartItems[requester][ProductOrder[i]] + Sum(i - 1)
         IN  Sum(Len(ProductOrder))

-----------------------------------------------------------------------------
(* Cart Store *)

CART_MAX_PER_ITEM == 10000

\* _add_to_db_cart: the new quantity of the (cart, product) line.
AddQty(old, product, qty) ==
    LET n0 == IF old = 0 THEN qty ELSE old + qty
        n1 == IF Product[product].stock > 0 THEN Min(n0, Product[product].stock) ELSE n0
    IN  Max(1, Min(CART_MAX_PER_ITEM, n1))

\* cart_add_view (login_required sends a guest to the login page; the
\* requesters here are not staff, so an inactive product is not found).
cart_add_view(db, requester, product, qty) ==
    IF requester = Anonymous THEN [db |-> db, code |-> 302, location |-> "login"]
    ELSE IF ~Product[product].is_active
    THEN [db |-> db, code |-> 404, location |-> NoValue]
    ELSE [db |-> [db EXCEPT !.cartItems[requester][product] =
                        AddQty(db.cartItems[requester][product], product, qty)],
          code |-> 302, location |-> "next"]

\* _set_db_cart_qty: delete the line for qty <= 0, else clamp and store it.
_set_db_cart_qty(db, user, product, qty) ==
    IF qty <= 0 THEN [db EXCEPT !.cartItems[user][product] = 0]
    ELSE LET q1 == IF Product[product].stock > 0
                   THEN Min(qty, Product[product].stock) ELSE qty
         IN  [db EXCEPT !.cartItems[user][product] = Min(q1, CART_MAX_PER_ITEM)]

\* cart_update_view.  A guest's cart lives in the session, not in the database.
cart_update_view(db, requester, product, action, qty) ==
    IF requester = Anonymous
    THEN [db |-> db, code |-> IF action \in {"remove", "set"} THEN 302 ELSE 400,
          location |-> IF action \in {"remove", "set"} THEN "cart_view" ELSE NoValue]
    ELSE IF action = "remove"
    THEN [db |-> [db EXCEPT !.cartItems[requester][product] = 0],
          code |-> 302, location |-> "cart_view"]
    ELSE IF action = "set"
    THEN [db |-> _set_db_cart_qty(db, requester, product, qty),
          code |-> 302, location |-> "cart_view"]
    ELSE [db |-> db, code |-> 400, location |-> NoValue]

-----------------------------------------------------------------------------
(* Snapshot Builder and Order Ledger *)

\* Mutant: the is_active filter of the queryset is left out.
SnapshotQty_InactiveKept(db, user, p) ==
    IF Product[p].stock > 0 THEN Min(db.cartItems[user][p], Product[p].stock)
    ELSE db.cartItems[user][p]

\* Mutant: the quantity is clamped to the stock whatever the stock is.
SnapshotQty_AlwaysClamped(db, user, p) ==
    IF ~Product[p].is_active THEN 0
    ELSE Min(db.cartItems[user][p], Product[p].stock)

\* The quantity a cart line contributes to the snapshot (0 = line dropped).
SnapshotQty(db, user, p) ==
    LET qty == db.cartItems[user][p]
    IN  IF ~Product[p].is_active THEN 0
        ELSE IF Product[p].stock > 0 THEN Min(qty, Product[p].stock)
        ELSE qty

\* Mutant: the line total is the unit price.
SnapshotLine_TotalOfOneUnit(db, user, p) ==
    [product_id |-> p, name |-> p,
     unit_price |-> _q2d(Product[p].price, 2),
     qty |-> SnapshotQty(db, user, p),
     line_total |-> _q2d(Product[p].price, 2),
     currency |-> Product[p].currency]

\* The dict appended to items for the line of product p.
SnapshotLine(db, user, p) ==
    LET qty == SnapshotQty(db, user, p)
    IN  [product_id |-> p, name |-> p,
         unit_price |-> _q2d(Product[p].price, 2),
         qty |-> qty,
         line_total |-> _q2d(qty * Product[p].price, 2),
         currency |-> Product[p].currency]

RECURSIVE SnapshotItems(_, _, _)
SnapshotItems(db, user, i) ==
    IF i = 0 THEN <<>>
    ELSE LET rest == SnapshotItems(db, user, i - 1)
             p == ProductOrder[i]
         IN  IF SnapshotQty(db, user, p) <= 0 THEN rest
             ELSE Append(rest, SnapshotLine(db, user, p))

RECURSIVE SumLines(_, _)
SumLines(items, i) ==
    IF i = 0 THEN 0 ELSE items[i].line_total + SumLines(items, i - 1)

\* The currencies of the snapshot lines.
Currencies(items) == {items[i].currency : i \in DOMAIN items}

\* Mutant: the currencies are not compared.
SnapshotOf_MixedAccepted(items) ==
    IF items = <<>>
    THEN [error |-> "Cart is empty", items |-> <<>>, subtotal |-> 0, currency |-> NoValue]
    ELSE [error |-> NoValue, items |-> items,
          subtotal |-> _q2d(SumLines(items, Len(items)), 2),
          currency |-> items[1].currency]

\* The checks and the sums _build_cart_snapshot makes on the lines it kept.
SnapshotOf(items) ==
    IF items = <<>>
    THEN [error |-> "Cart is empty", items |-> <<>>, subtotal |-> 0, currency |-> NoValue]
    ELSE IF Cardinality(Currencies(items)) > 1
    THEN [error |-> "Mixed currency cart is not supported",
          items |-> <<>>, subtotal |-> 0, currency |-> NoValue]
    ELSE [error |-> NoValue, items |-> items,
          subtotal |-> _q2d(SumLines(items, Len(items)), 2),
          currency |-> CHOOSE c \in Currencies(items) : TRUE]

\* _build_cart_snapshot: (items, subtotal, currency) or the ValueError raised.
_build_cart_snapshot(db, user) == SnapshotOf(SnapshotItems(db, user, Len(ProductOrder)))

\* OrderItem(...) rows built from the snapshot.
OrderItemRows(items) ==
    [i \in DOMAIN items |->
        [product_id |-> items[i].product_id, name |-> items[i].name,
         unit_price |-> items[i].unit_price, qty |-> items[i].qty,
         line_total |-> items[i].line_total,
         processing_status |-> "running",
         delivery_file |-> NoValue, user_file |-> NoValue]]

\* Mutant: the OrderItem rows are not written.
NewOrder_ItemsLeftOut(db, user, code, snap) ==
    [id |-> UuidSeq[Len(db.orders) + 1],
     order_code |-> code,
     user |-> user,
     currency |-> snap.currency,
     subtotal |-> snap.subtotal,
     total |-> snap.subtotal,
     status |-> "pending",
     processing_status |-> "running",
     items_json |-> snap.items,
     items |-> <<>>,
     provider_order_no |-> "",
     delivery_file |-> NoValue,
     data |-> {}]

\* Order.objects.create(...) and the OrderItem rows, from the snapshot snap.
NewOrder(db, user, code, snap) ==
    [id |-> UuidSeq[Len(db.orders) + 1],
     order_code |-> code,
     user |-> user,
     currency |-> snap.currency,
     subtotal |-> snap.subtotal,
     total |-> snap.subtotal,
     status |-> "pending",
     processing_status |-> "running",
     items_json |-> snap.items,
     items |-> OrderItemRows(snap.items),
     provider_order_no |-> "",
     delivery_file |-> NoValue,
     data |-> {}]   \* payloads held under data["webhook"]

\* Mutant: order_code is not unique.
OrderFromSnapshot_CodeNotUnique(db, user, code, snap) ==
    IF snap.error # NoValue
    THEN [raised |-> "ValueError", db |-> db, order |-> 0]
    ELSE [raised |-> NoValue,
          db |-> [db EXCEPT !.orders = Append(@, NewOrder(db, user, code, snap))],
          order |-> Len(db.orders) + 1]

\* The body of _create_order_from_cart once the snapshot snap is built.  A
\* code already stored violates unique=True: create raises IntegrityError.
OrderFromSnapshot(db, user, code, snap) ==
    IF snap.error # NoValue
    THEN [raised |-> "ValueError", db |-> db, order |-> 0]
    ELSE IF OrderByCode(db, code) # 0
    THEN [raised |-> "IntegrityError", db |-> db, order |-> 0]
    ELSE [raised |-> NoValue,
          db |-> [db EXCEPT !.orders = Append(@, NewOrder(db, user, code, snap))],
          order |-> Len(db.orders) + 1]

\* _create_order_from_cart with order_code = code.
_create_order_from_cart(db, user, code) ==
    OrderFromSnapshot(db, user, code, _build_cart_snapshot(db, user))

-----------------------------------------------------------------------------
(* Payment Initiator *)

\* Mutant: status= is left out, so the row gets the model's default "created".
NewPayment_DefaultStatus(order, method, amount, currency, provider_ref, provider) ==
    [order |-> order.id, method |-> method, status |-> "created",
     amount |-> amount, currency |-> currency, provider_ref |-> provider_ref,
     meta |-> [provider |-> provider, webhook |-> {}]]

\* Payment.objects.create(...)
NewPayment(order, method, amount, currency, provider_ref, provider) ==
    [order |-> order.id, method |-> method, status |-> "processing",
     amount |-> amount, currency |-> currency, provider_ref |-> provider_ref,
     meta |-> [provider |-> provider, webhook |-> {}]]

Reply(db, code, location, oc) ==
    [db |-> db, code |-> code, location |-> location, oc |-> oc]

\* Mutant: the Payment row is created twice.
GatewayRedirect_PaymentTwice(db, order) ==
    Reply([db EXCEPT !.payments =
               Append(Append(@, NewPayment(order, "stripe", order.total, order.currency,
                                           "", "2checkout")),
                      NewPayment(order, "stripe", order.total, order.currency,
                                 "", "2checkout"))],
          302, "gateway", order.order_code)

\* Mutant: the cart is emptied once the Order is stored.
GatewayRedirect_CartCleared(db, order) ==
    Reply([ClearCart(db, order.user) EXCEPT !.payments =
               Append(@, NewPayment(order, "stripe", order.total, order.currency,
                                    "", "2checkout"))],
          302, "gateway", order.order_code)

\* The Payment row and the redirect to the gateway for the Order just made.
GatewayRedirect(db, order) ==
    Reply([db EXCEPT !.payments =
               Append(@, NewPayment(order, "stripe", order.total, order.currency,
                                    "", "2checkout"))],
          302, "gateway", order.order_code)

\* pay_with_2checkout after _create_order_from_cart returned or raised.
AfterOrderCreated(db, made) ==
    IF made.raised # NoValue THEN Reply(db, 302, "cart_view", NoValue)
    ELSE GatewayRedirect(made.db, made.db.orders[made.order])

\* pay_with_2checkout; `code` is the order code the generator returns.
pay_with_2checkout(db, conf, requester, code) ==
    IF requester = Anonymous THEN Reply(db, 302, "login", NoValue)
    ELSE IF ~conf.TWOCHECKOUT_BUY_LINK THEN Reply(db, 302, "checkout", NoValue)
    ELSE AfterOrderCreated(db, _create_order_from_cart(db, requester, code))

-----------------------------------------------------------------------------
(* Text: str.lower() and the `in` (substring) test *)

UpperCase == <<"A","B","C","D","E","F","G","H","I","J","K","L","M",
               "N","O","P","Q","R","S","T","U","V","W","X","Y","Z">>
LowerCase == <<"a","b","c","d","e","f","g","h","i","j","k","l","m",
               "n","o","p","q","r","s","t","u","v","w","x","y","z">>

LowerChar(c) ==
    IF \E i \in 1..Len(UpperCase) : UpperCase[i] = c
    THEN LowerCase[CHOOSE i \in 1..Len(UpperCase) : UpperCase[i] = c]
    ELSE c

Lower(text) == [i \in DOMAIN text |-> LowerChar(text[i])]

Contains(text, word) ==
    \E i \in 0..(Len(text) - Len(word)) : SubSeq(text, i + 1, i + Len(word)) = word

W_approved == <<"a","p","p","r","o","v","e","d">>
W_complete == <<"c","o","m","p","l","e","t","e">>
W_paid == <<"p","a","i","d">>
W_success == <<"s","u","c","c","e","s","s">>
W_declined == <<"d","e","c","l","i","n","e","d">>
W_refunded == <<"r","e","f","u","n","d","e","d">>
W_failed == <<"f","a","i","l","e","d">>
W_canceled == <<"c","a","n","c","e","l","e","d">>
W_cancelled == <<"c","a","n","c","e","l","l","e","d">>

\* Status texts a provider may send (ORDERSTATUS / status).
S_COMPLETE == <<"C","O","M","P","L","E","T","E">>
S_declined == <<"d","e","c","l","i","n","e","d">>
S_CANCELED == <<"C","A","N","C","E","L","E","D">>
S_waiting == <<"w","a","i","t","i","n","g">>
S_PAYMENT_AUTHORIZED == <<"P","A","Y","M","E","N","T","_","A","U","T","H","O","R","I","Z","E","D">>
S_Approved == <<"A","p","p","r","o","v","e","d">>
S_unpaid == <<"u","n","p","a","i","d">>
S_successful == <<"s","u","c","c","e","s","s","f","u","l">>
S_REFUND == <<"R","E","F","U","N","D">>
S_order_cancelled == <<"o","r","d","e","r"," ","c","a","n","c","e","l","l","e","d">>

\* Status texts the webhooks of the specification carry.
SentStatuses == {S_COMPLETE, S_declined, S_CANCELED, S_waiting}

\* Status texts the mapping is examined on.
StatusTexts ==
    SentStatuses \cup
    {W_approved, W_complete, W_paid, W_success, W_declined, W_refunded, W_failed,
     W_canceled, W_cancelled, <<>>, S_PAYMENT_AUTHORIZED, S_Approved, S_unpaid,
     S_successful, S_REFUND, S_order_cancelled}

-----------------------------------------------------------------------------
(* Payment Initiator: SSLCommerz *)

\* str.upper()
UpperChar(c) ==
    IF \E i \in 1..Len(LowerCase) : LowerCase[i] = c
    THEN UpperCase[CHOOSE i \in 1..Len(LowerCase) : LowerCase[i] = c]
    ELSE c

Upper(text) == [i \in DOMAIN text |-> UpperChar(text[i])]

S_SUCCESS == <<"S","U","C","C","E","S","S">>
S_FAILED == <<"F","A","I","L","E","D">>

\* Exchange rates to BDT (settings.FX_*_BDT), in hundredths; a currency
\* outside the table has no rate.
Rates(conf) ==
    [USD |-> conf.FX_USD_BDT, EUR |-> conf.FX_EUR_BDT, GBP |-> conf.FX_GBP_BDT]

\* _to_bdt: (amount in BDT, rate) or the ValueError raised.  amount * rate
\* carries four decimals before it is quantized.
_to_bdt(conf, amount, currency) ==
    IF currency = "BDT" THEN [raised |-> NoValue, amount |-> _q2d(amount, 2), rate |-> 100]
    ELSE IF currency \notin DOMAIN Rates(conf) THEN
        [raised |-> "ValueError", amount |-> 0, rate |-> 0]
    ELSE IF Rates(conf)[currency] = 0 THEN
        [raised |-> "ValueError", amount |-> 0, rate |-> 0]
    ELSE [raised |-> NoValue,
          amount |-> _q2d(amount * Rates(conf)[currency], 4),
          rate |-> Rates(conf)[currency]]

\* The smallest amount pay_with_sslcommerz sends to the gateway: 10.00 BDT.
SSLC_MIN_AMOUNT == 1000

\* Mutant: the Order is left as it was created.
CancelAndReturn_OrderLeftPending(db, o) ==
    Reply(db, 302, "checkout", db.orders[o].order_code) @@ [posted |-> FALSE]

\* order.status = "cancelled"; order.save(); redirect("checkout")
CancelAndReturn(db, o) ==
    Reply([db EXCEPT !.orders[o].status = "cancelled"], 302, "checkout",
          db.orders[o].order_code) @@ [posted |-> FALSE]

\* Mutant: a response is accepted on its redirect URL alone.
InitAnswered_UrlOnly(db, o, bdt, tran_id, init) ==
    IF init.raised THEN
        Reply(db, 302, "checkout", db.orders[o].order_code) @@ [posted |-> TRUE]
    ELSE IF init.GatewayPageURL = ""
    THEN Reply(db, 302, "checkout", db.orders[o].order_code) @@ [posted |-> TRUE]
    ELSE Reply([db EXCEPT !.payments =
                    Append(@, [NewPayment(db.orders[o], "sslcommerz", bdt.amount, "BDT",
                                          tran_id, NoValue)
                               EXCEPT !.meta = @ @@
                                   [original_total |-> _q2d(db.orders[o].total, 2),
                                    original_currency |-> db.orders[o].currency,
                                    fx_rate_to_bdt |-> bdt.rate,
                                    charged_bdt |-> bdt.amount]])],
               302, "gateway", db.orders[o].order_code) @@ [posted |-> TRUE]

\* pay_with_sslcommerz once requests.post was called: init is the outcome
\* (raised, or the parsed status and GatewayPageURL).
InitAnswered(db, o, bdt, tran_id, init) ==
    IF init.raised THEN
        Reply(db, 302, "checkout", db.orders[o].order_code) @@ [posted |-> TRUE]
    ELSE IF init.GatewayPageURL = "" \/ Upper(init.status) # S_SUCCESS
    THEN Reply(db, 302, "checkout", db.orders[o].order_code) @@ [posted |-> TRUE]
    ELSE Reply([db EXCEPT !.payments =
                    Append(@, [NewPayment(db.orders[o], "sslcommerz", bdt.amount, "BDT",
                                          tran_id, NoValue)
                               EXCEPT !.meta = @ @@
                                   [original_total |-> _q2d(db.orders[o].total, 2),
                                    original_currency |-> db.orders[o].currency,
                                    fx_rate_to_bdt |-> bdt.rate,
                                    charged_bdt |-> bdt.amount]])],
               302, "gateway", db.orders[o].order_code) @@ [posted |-> TRUE]

\* Mutant: the minimum is tested on the amount before it is quantized.
Converted_UnroundedMinimum(db, o, bdt, tran_id, init) ==
    IF bdt.raised # NoValue THEN CancelAndReturn(db, o)
    ELSE IF db.orders[o].currency # "BDT"
            /\ db.orders[o].total * bdt.rate < SSLC_MIN_AMOUNT * 100
    THEN CancelAndReturn(db, o)
    ELSE IF db.orders[o].currency = "BDT" /\ bdt.amount < SSLC_MIN_AMOUNT
    THEN CancelAndReturn(db, o)
    ELSE InitAnswered(db, o, bdt, tran_id, init)

\* pay_with_sslcommerz after _to_bdt returned or raised.
Converted(db, o, bdt, tran_id, init) ==
    IF bdt.raised # NoValue THEN CancelAndReturn(db, o)
    ELSE IF bdt.amount < SSLC_MIN_AMOUNT THEN CancelAndReturn(db, o)
    ELSE InitAnswered(db, o, bdt, tran_id, init)

\* pay_with_sslcommerz after _create_order_from_cart returned or raised.
AfterSslcOrderCreated(db, conf, made, tran_id, init) ==
    IF made.raised # NoValue THEN
        Reply(db, 302, "cart_view", NoValue) @@ [posted |-> FALSE]
    ELSE Converted(made.db, made.order,
                   _to_bdt(conf, made.db.orders[made.order].total,
                           made.db.orders[made.order].currency),
                   tran_id, init)

\* Mutant: the credentials are not looked at.
pay_with_sslcommerz_NoCredentialCheck(db, conf, requester, code, tran_id, init) ==
    IF requester = Anonymous THEN Reply(db, 302, "login", NoValue) @@ [posted |-> FALSE]
    ELSE AfterSslcOrderCreated(db, conf, _create_order_from_cart(db, requester, code),
                               tran_id, init)

\* pay_with_sslcommerz; `code` is the order code the generator returns,
\* tran_id the transaction id, init the outcome of the gateway's init call.
pay_with_sslcommerz(db, conf, requester, code, tran_id, init) ==
    IF requester = Anonymous THEN Reply(db, 302, "login", NoValue) @@ [posted |-> FALSE]
    ELSE IF ~conf.REQUESTS_INSTALLED THEN
        Reply(db, 302, "checkout", NoValue) @@ [posted |-> FALSE]
    ELSE IF ~conf.SSLC_STORE_ID \/ ~conf.SSLC_STORE_PASS THEN
        Reply(db, 302, "checkout", NoValue) @@ [posted |-> FALSE]
    ELSE AfterSslcOrderCreated(db, conf, _create_order_from_cart(db, requester, code),
                               tran_id, init)

\* pay_with_coin: an option only.
pay_with_coin(db, requester) ==
    IF requester = Anonymous THEN Reply(db, 302, "login", NoValue)
    ELSE Reply(db, 302, "checkout", NoValue)

-----------------------------------------------------------------------------
(* Reconciliation Handler: the 2Checkout webhook *)

\* Mutant: the stub answers True.
_verify_tco_signature_Accepting(conf, secret_word) == TRUE

\* _verify_tco_signature: the verification itself is a stub.
_verify_tco_signature(conf, secret_word) ==
    IF conf.DEBUG THEN TRUE
    ELSE IF secret_word = NoValue THEN FALSE
    ELSE FALSE

\* The Order status the webhook derives from the lower-cased status text.
WebhookOrderStatus(status_text) ==
    IF Contains(status_text, W_approved) \/ Contains(status_text, W_complete)
       \/ Contains(status_text, W_paid) \/ status_text = W_success
    THEN "paid"
    ELSE IF Contains(status_text, W_declined) \/ Contains(status_text, W_refunded)
            \/ Contains(status_text, W_failed)
    THEN "failed"
    ELSE IF Contains(status_text, W_canceled) \/ Contains(status_text, W_cancelled)
    THEN "canceled"
    ELSE "pending"

\* status_text.lower() mapped to the Order status, tabulated per text.
StatusOfText == [st \in StatusTexts |-> WebhookOrderStatus(Lower(st))]

\* Mutant: the Payment is left in progress whatever the Order status.
WebhookPaymentStatus_InProgress(order_status) == "processing"

\* The Payment status the webhook derives from the Order status it stored.
WebhookPaymentStatus(order_status) ==
    IF order_status = "paid" THEN "succeeded"
    ELSE IF order_status \in {"failed", "canceled"} THEN "cancelled"
    ELSE "processing"

\* The Order the webhook resolves: "skip" (no merchant id: the whole block is
\* skipped), "invalid" (Order.objects.get(id=...) on a value that is no UUID
\* raises ValidationError, which the view does not catch), or an index
\* (0 = none found).
WebhookResolve(db, payload) ==
    IF payload.merchant_order_id = NoValue THEN [how |-> "skip", order |-> 0]
    ELSE IF payload.merchant_order_id \notin UuidSpace THEN [how |-> "invalid", order |-> 0]
    ELSE IF OrderById(db, payload.merchant_order_id) # 0
    THEN [how |-> "id", order |-> OrderById(db, payload.merchant_order_id)]
    ELSE IF payload.order_ext_ref # NoValue
    THEN [how |-> "code", order |-> OrderByCode(db, payload.order_ext_ref)]
    ELSE [how |-> "code", order |-> 0]

\* payload.get("order_number") or payload.get("REFNO") or order.provider_order_no
ProviderOrderNo(payload, order) ==
    IF payload.order_number # NoValue THEN payload.order_number
    ELSE IF payload.REFNO # NoValue THEN payload.REFNO
    ELSE order.provider_order_no

\* Mutant: a paid webhook leaves the cart alone.
WebhookOrder_CartKept(db, payload, o) ==
    [db EXCEPT !.orders[o].status = StatusOfText[payload.status],
               !.orders[o].provider_order_no = ProviderOrderNo(payload, db.orders[o]),
               !.orders[o].data = {payload}]

\* Mutant: the payload is added to the ones already held.
WebhookOrder_PayloadAppended(db, payload, o) ==
    [(IF StatusOfText[payload.status] = "paid" /\ db.orders[o].user # NoValue
      THEN ClearCart(db, db.orders[o].user) ELSE db)
     EXCEPT !.orders[o].status = StatusOfText[payload.status],
            !.orders[o].provider_order_no = ProviderOrderNo(payload, db.orders[o]),
            !.orders[o].data = @ \cup {payload}]

\* The Order part of two_co_webhook for the Order row o: the status, the
\* owner's cart on "paid", the provider's number, data["webhook"]; save.
WebhookOrder(db, payload, o) ==
    [(IF StatusOfText[payload.status] = "paid" /\ db.orders[o].user # NoValue
      THEN ClearCart(db, db.orders[o].user) ELSE db)
     EXCEPT !.orders[o].status = StatusOfText[payload.status],
            !.orders[o].provider_order_no = ProviderOrderNo(payload, db.orders[o]),
            !.orders[o].data = {payload}]

\* The Payment part of two_co_webhook: p is the Order's latest Payment.
WebhookPayment(db, payload, o, p) ==
    IF p # 0 /\ db.payments[p].method \in {"stripe", "sslcommerz", "coin"}
    THEN [db EXCEPT !.payments[p].status = WebhookPaymentStatus(db.orders[o].status),
                    !.payments[p].provider_ref =
                        IF payload.REFNO # NoValue THEN payload.REFNO ELSE @,
                    !.payments[p].meta.webhook = {payload}]
    ELSE db

\* The Payment part applied to the database the Order part left.
WebhookPaymentOf(db, payload, o) == WebhookPayment(db, payload, o, LatestPayment(db, o))

\* The part of two_co_webhook that runs once an Order row o is found.
WebhookApply(db, payload, o) == WebhookPaymentOf(WebhookOrder(db, payload, o), payload, o)

\* two_co_webhook after the lookup of the Order.
WebhookFound(db, payload, found) ==
    IF found.how = "skip" THEN Reply(db, 200, NoValue, NoValue)
    ELSE IF found.how = "invalid" THEN Reply(db, 500, NoValue, NoValue)
    ELSE IF found.order = 0 THEN Reply(db, 200, NoValue, NoValue)
    ELSE Reply(WebhookApply(db, payload, found.order), 200, NoValue,
               db.orders[found.order].order_code)

\* two_co_webhook (POST).
two_co_webhook(db, conf, payload) ==
    IF ~_verify_tco_signature(conf, conf.TWOCHECKOUT_SECRET_WORD) /\ ~conf.DEBUG
    THEN Reply(db, 400, NoValue, NoValue)
    ELSE WebhookFound(db, payload, WebhookResolve(db, payload))

-----------------------------------------------------------------------------
(* Reconciliation Handler: the return pages *)

\* The page a return view renders, with the requester's cart count.
Page(db, requester, code, oc) ==
    Reply(db, code, NoValue, oc) @@ [cart_count |-> _cart_count(db, requester)]

\* Mutant: the cart is not cleared.
ConfirmPayment_CartKept(db, o, p) ==
    IF p # 0 /\ db.payments[p].status \in {"processing", "created"}
    THEN [db EXCEPT !.payments[p].status = "succeeded",
                    !.orders[o].status = "paid",
                    !.orders[o].processing_status = "running"]
    ELSE db

\* checkout_success on the Order row o whose latest Payment is p (0 = none).
ConfirmPayment(db, o, p) ==
    IF p # 0 /\ db.payments[p].status \in {"processing", "created"}
    THEN ClearCart([db EXCEPT !.payments[p].status = "succeeded",
                              !.orders[o].status = "paid",
                              !.orders[o].processing_status = "running"],
                   db.orders[o].user)
    ELSE db

\* Mutant: only the Order's owner may confirm it.
checkout_success_OwnerOnly(db, requester, oc) ==
    IF OrderByCode(db, oc) = 0 THEN Reply(db, 404, NoValue, NoValue) @@ [cart_count |-> 0]
    ELSE IF db.orders[OrderByCode(db, oc)].user # requester
    THEN Reply(db, 404, NoValue, NoValue) @@ [cart_count |-> 0]
    ELSE Page(ConfirmPayment(db, OrderByCode(db, oc),
                             LatestPayment(db, OrderByCode(db, oc))),
              requester, 200, oc)

\* checkout_success (no login_required: any client may send it).
checkout_success(db, requester, oc) ==
    IF OrderByCode(db, oc) = 0 THEN Reply(db, 404, NoValue, NoValue) @@ [cart_count |-> 0]
    ELSE Page(ConfirmPayment(db, OrderByCode(db, oc),
                             LatestPayment(db, OrderByCode(db, oc))),
              requester, 200, oc)

\* Mutant: the Order is cancelled whatever its status.
CancelOrder_AnyStatus(db, o) == [db EXCEPT !.orders[o].status = "cancelled"]

\* checkout_cancel, the Order row o: cancelled only while pending.
CancelOrder(db, o) ==
    IF db.orders[o].status = "pending"
    THEN [db EXCEPT !.orders[o].status = "cancelled"] ELSE db

\* checkout_cancel, the Order's latest Payment p (0 = none).
CancelPayment(db, p) ==
    IF p # 0 /\ db.payments[p].status \in {"processing", "created"}
    THEN [db EXCEPT !.payments[p].status = "cancelled"] ELSE db

\* checkout_cancel (no login_required either).
checkout_cancel(db, requester, oc) ==
    IF OrderByCode(db, oc) = 0 THEN Page(db, requester, 200, NoValue)
    ELSE Page(CancelPayment(CancelOrder(db, OrderByCode(db, oc)),
                            LatestPayment(db, OrderByCode(db, oc))),
              requester, 200, oc)

-----------------------------------------------------------------------------
(* Fulfilment File Exchange: staff views and the per-item files *)

\* Accounts with is_staff set; they own no cart and no Order here.
Staff == {"sam"}
Clients == Requesters \cup Staff

\* 50 * 1024 * 1024
MAX_UPLOAD_BYTES == 52428800

\* request.FILES.get(...) when no file was selected.
NoFile == [name |-> NoValue, size |-> 0]

\* An OrderItem id is kept as <<index of the Order row, index of the item>>.
ItemFound(db, item_id) ==
    /\ item_id[1] \in DOMAIN db.orders
    /\ item_id[2] \in DOMAIN db.orders[item_id[1]].items

ItemRow(db, item_id) == db.orders[item_id[1]].items[item_id[2]]
ItemOrder(db, item_id) == db.orders[item_id[1]]

\* A response of a file view: the message flashed and the file streamed.
FileReply(db, code, location, oc, message, file) ==
    Reply(db, code, location, oc) @@ [message |-> message, file |-> file]

\* staff_order_toggle_processing (staff_member_required sends anyone else to
\* the admin login).
staff_order_toggle_processing(db, requester, pk) ==
    IF requester \notin Staff
    THEN FileReply(db, 302, "admin:login", NoValue, NoValue, NoValue)
    ELSE IF OrderById(db, pk) = 0
    THEN FileReply(db, 404, NoValue, NoValue, NoValue, NoValue)
    ELSE IF db.orders[OrderById(db, pk)].status # "paid"
    THEN FileReply(db, 302, "admin_orders", db.orders[OrderById(db, pk)].order_code,
                   "Only PAID orders can be marked running/complete.", NoValue)
    ELSE FileReply([db EXCEPT !.orders[OrderById(db, pk)].processing_status =
                        IF @ = "running" THEN "complete" ELSE "running"],
                   302, "admin_orders", db.orders[OrderById(db, pk)].order_code,
                   "Order marked.", NoValue)

\* staff_order_upload_file; f is request.FILES.get("output").
staff_order_upload_file(db, requester, pk, f) ==
    IF requester \notin Staff
    THEN FileReply(db, 302, "admin:login", NoValue, NoValue, NoValue)
    ELSE IF OrderById(db, pk) = 0
    THEN FileReply(db, 404, NoValue, NoValue, NoValue, NoValue)
    ELSE IF f = NoFile
    THEN FileReply(db, 302, "admin_order_detail", db.orders[OrderById(db, pk)].order_code,
                   "No file selected.", NoValue)
    ELSE IF f.size > MAX_UPLOAD_BYTES
    THEN FileReply(db, 302, "admin_order_detail", db.orders[OrderById(db, pk)].order_code,
                   "File too large (max 50MB).", NoValue)
    ELSE FileReply([db EXCEPT !.orders[OrderById(db, pk)].delivery_file = f.name,
                              !.orders[OrderById(db, pk)].processing_status =
                                  IF db.orders[OrderById(db, pk)].status = "paid"
                                  THEN "complete" ELSE @],
                   302, "admin_order_detail", db.orders[OrderById(db, pk)].order_code,
                   "File attached.", NoValue)

\* staff_item_toggle_processing
staff_item_toggle_processing(db, requester, item_id) ==
    IF requester \notin Staff
    THEN FileReply(db, 302, "admin:login", NoValue, NoValue, NoValue)
    ELSE IF ~ItemFound(db, item_id)
    THEN FileReply(db, 404, NoValue, NoValue, NoValue, NoValue)
    ELSE IF ItemOrder(db, item_id).status # "paid"
    THEN FileReply(db, 302, "admin_order_detail", ItemOrder(db, item_id).order_code,
                   "Only PAID orders' items can be toggled.", NoValue)
    ELSE FileReply([db EXCEPT !.orders[item_id[1]].items[item_id[2]].processing_status =
                        IF @ = "running" THEN "complete" ELSE "running"],
                   302, "admin_order_detail", ItemOrder(db, item_id).order_code,
                   "Item marked.", NoValue)

\* Mutant: the delivery file is stored for any requester.
staff_item_upload_file_AnyRequester(db, requester, item_id, f) ==
    IF ~ItemFound(db, item_id)
    THEN FileReply(db, 404, NoValue, NoValue, NoValue, NoValue)
    ELSE IF f = NoFile
    THEN FileReply(db, 302, "admin_order_detail", ItemOrder(db, item_id).order_code,
                   "No file selected.", NoValue)
    ELSE IF f.size > MAX_UPLOAD_BYTES
    THEN FileReply(db, 302, "admin_order_detail", ItemOrder(db, item_id).order_code,
                   "File too large (max 50MB).", NoValue)
    ELSE FileReply([db EXCEPT !.orders[item_id[1]].items[item_id[2]].delivery_file = f.name,
                              !.orders[item_id[1]].items[item_id[2]].processing_status =
                                  IF ItemOrder(db, item_id).status = "paid"
                                  THEN "complete" ELSE @],
                   302, "admin_order_detail", ItemOrder(db, item_id).order_code,
                   "File uploaded.", NoValue)

\* staff_item_upload_file; f is request.FILES.get("file") or .get("output").
staff_item_upload_file(db, requester, item_id, f) ==
    IF requester \notin Staff
    THEN FileReply(db, 302, "admin:login", NoValue, NoValue, NoValue)
    ELSE IF ~ItemFound(db, item_id)
    THEN FileReply(db, 404, NoValue, NoValue, NoValue, NoValue)
    ELSE IF f = NoFile
    THEN FileReply(db, 302, "admin_order_detail", ItemOrder(db, item_id).order_code,
                   "No file selected.", NoValue)
    ELSE IF f.size > MAX_UPLOAD_BYTES
    THEN FileReply(db, 302, "admin_order_detail", ItemOrder(db, item_id).order_code,
                   "File too large (max 50MB).", NoValue)
    ELSE FileReply([db EXCEPT !.orders[item_id[1]].items[item_id[2]].delivery_file = f.name,
                              !.orders[item_id[1]].items[item_id[2]].processing_status =
                                  IF ItemOrder(db, item_id).status = "paid"
                                  THEN "complete" ELSE @],
                   302, "admin_order_detail", ItemOrder(db, item_id).order_code,
                   "File uploaded.", NoValue)

\* staff_item_delete_file
staff_item_delete_file(db, requester, item_id) ==
    IF requester \notin Staff
    THEN FileReply(db, 302, "admin:login", NoValue, NoValue, NoValue)
    ELSE IF ~ItemFound(db, item_id)
    THEN FileReply(db, 404, NoValue, NoValue, NoValue, NoValue)
    ELSE IF ItemRow(db, item_id).delivery_file # NoValue
    THEN FileReply([db EXCEPT !.orders[item_id[1]].items[item_id[2]].delivery_file = NoValue],
                   302, "admin_order_detail", ItemOrder(db, item_id).order_code,
                   "Item file removed.", NoValue)
    ELSE FileReply(db, 302, "admin_order_detail", ItemOrder(db, item_id).order_code,
                   "No file to remove.", NoValue)

\* Where a download view sends a requester when there is nothing to stream.
DetailPage(requester) ==
    IF requester \in Staff THEN "admin_order_detail" ELSE "my_order_detail"

\* item_file_download (login_required sends a guest to the login page).
item_file_download(db, requester, item_id) ==
    IF requester = Anonymous
    THEN FileReply(db, 302, "login", NoValue, NoValue, NoValue)
    ELSE IF ~ItemFound(db, item_id)
    THEN FileReply(db, 404, NoValue, NoValue, NoValue, NoValue)
    ELSE IF ~(requester \in Staff \/ ItemOrder(db, item_id).user = requester)
    THEN FileReply(db, 404, NoValue, NoValue, NoValue, NoValue)
    ELSE IF ItemRow(db, item_id).delivery_file = NoValue
    THEN FileReply(db, 302, DetailPage(requester), ItemOrder(db, item_id).order_code,
                   "No file attached for this item.", NoValue)
    ELSE FileReply(db, 200, NoValue, ItemOrder(db, item_id).order_code,
                   NoValue, ItemRow(db, item_id).delivery_file)

\* Mutant: the slot is overwritten when it is already filled.
user_item_upload_file_NoLock(db, requester, item_id, f) ==
    IF requester = Anonymous
    THEN FileReply(db, 302, "login", NoValue, NoValue, NoValue)
    ELSE IF ~ItemFound(db, item_id)
    THEN FileReply(db, 404, NoValue, NoValue, NoValue, NoValue)
    ELSE IF ItemOrder(db, item_id).user # requester
    THEN FileReply(db, 404, NoValue, NoValue, NoValue, NoValue)
    ELSE IF ItemOrder(db, item_id).status # "paid"
    THEN FileReply(db, 302, "my_order_detail", ItemOrder(db, item_id).order_code,
                   "You can upload files after payment.", NoValue)
    ELSE IF f = NoFile
    THEN FileReply(db, 302, "my_order_detail", ItemOrder(db, item_id).order_code,
                   "No file selected.", NoValue)
    ELSE IF f.size > MAX_UPLOAD_BYTES
    THEN FileReply(db, 302, "my_order_detail", ItemOrder(db, item_id).order_code,
                   "File too large (max 50MB).", NoValue)
    ELSE FileReply([db EXCEPT !.orders[item_id[1]].items[item_id[2]].user_file = f.name],
                   302, "my_order_detail", ItemOrder(db, item_id).order_code,
                   "File uploaded. Our team will review it.", NoValue)

\* user_item_upload_file; f is request.FILES.get("file") or .get("output").
user_item_upload_file(db, requester, item_id, f) ==
    IF requester = Anonymous
    THEN FileReply(db, 302, "login", NoValue, NoValue, NoValue)
    ELSE IF ~ItemFound(db, item_id)
    THEN FileReply(db, 404, NoValue, NoValue, NoValue, NoValue)
    ELSE IF ItemOrder(db, item_id).user # requester
    THEN FileReply(db, 404, NoValue, NoValue, NoValue, NoValue)
    ELSE IF ItemOrder(db, item_id).status # "paid"
    THEN FileReply(db, 302, "my_order_detail", ItemOrder(db, item_id).order_code,
                   "You can upload files after payment.", NoValue)
    ELSE IF ItemRow(db, item_id).user_file # NoValue
    THEN FileReply(db, 302, "my_order_detail", ItemOrder(db, item_id).order_code,
                   "You've already uploaded a file for this item.", NoValue)
    ELSE IF f = NoFile
    THEN FileReply(db, 302, "my_order_detail", ItemOrder(db, item_id).order_code,
                   "No file selected.", NoValue)
    ELSE IF f.size > MAX_UPLOAD_BYTES
    THEN FileReply(db, 302, "my_order_detail", ItemOrder(db, item_id).order_code,
                   "File too large (max 50MB).", NoValue)
    ELSE FileReply([db EXCEPT !.orders[item_id[1]].items[item_id[2]].user_file = f.name],
                   302, "my_order_detail", ItemOrder(db, item_id).order_code,
                   "File uploaded. Our team will review it.", NoValue)

\* item_user_file_download
item_user_file_download(db, requester, item_id) ==
    IF requester = Anonymous
    THEN FileReply(db, 302, "login", NoValue, NoValue, NoValue)
    ELSE IF ~ItemFound(db, item_id)
    THEN FileReply(db, 404, NoValue, NoValue, NoValue, NoValue)
    ELSE IF ~(requester \in Staff \/ ItemOrder(db, item_id).user = requester)
    THEN FileReply(db, 404, NoValue, NoValue, NoValue, NoValue)
    ELSE IF ItemRow(db, item_id).user_file = NoValue
    THEN FileReply(db, 302, DetailPage(requester), ItemOrder(db, item_id).order_code,
                   "No user file uploaded for this item.", NoValue)
    ELSE FileReply(db, 200, NoValue, ItemOrder(db, item_id).order_code,
                   NoValue, ItemRow(db, item_id).user_file)

\* Mutant: the file is removed from storage but the field keeps its name.
staff_item_user_file_delete_NameKept(db, requester, item_id) ==
    IF requester \notin Staff
    THEN FileReply(db, 302, "admin:login", NoValue, NoValue, NoValue)
    ELSE IF ~ItemFound(db, item_id)
    THEN FileReply(db, 404, NoValue, NoValue, NoValue, NoValue)
    ELSE IF ItemRow(db, item_id).user_file # NoValue
    THEN FileReply(db, 302, "admin_order_detail", ItemOrder(db, item_id).order_code,
                   "User file removed.", NoValue)
    ELSE FileReply(db, 302, "admin_order_detail", ItemOrder(db, item_id).order_code,
                   "No user file to remove.", NoValue)

\* staff_item_user_file_delete: the file is deleted and the field set to None.
staff_item_user_file_delete(db, requester, item_id) ==
    IF requester \notin Staff
    THEN FileReply(db, 302, "admin:login", NoValue, NoValue, NoValue)
    ELSE IF ~ItemFound(db, item_id)
    THEN FileReply(db, 404, NoValue, NoValue, NoValue, NoValue)
    ELSE IF ItemRow(db, item_id).user_file # NoValue
    THEN FileReply([db EXCEPT !.orders[item_id[1]].items[item_id[2]].user_file = NoValue],
                   302, "admin_order_detail", ItemOrder(db, item_id).order_code,
                   "User file removed.", NoValue)
    ELSE FileReply(db, 302, "admin_order_detail", ItemOrder(db, item_id).order_code,
                   "No user file to remove.", NoValue)

-----------------------------------------------------------------------------
(* Requests drawn by the specification *)

RefNo == "2CO-1001"

\* A payload: the merchant id (merchant_order_id / REFNOEXT / ref), the
\* order code (order-ext-ref / ORDERREF), the status text (ORDERSTATUS /
\* status) and the provider's references (order_number, REFNO).
Payload(mid, ext, status) ==
    [merchant_order_id |-> mid, order_ext_ref |-> ext, status |-> status,
     order_number |-> NoValue, REFNO |-> RefNo]

OrderUuids == {UuidSeq[i] : i \in 1..MaxOrders}

\* Webhook payloads: addressed by merchant id; by an unknown merchant id and an
\* order code; without a merchant id; with the order code as the merchant id.
Payloads ==
    {Payload(m, NoValue, st) : m \in OrderUuids \cup {UnknownUuid}, st \in SentStatuses}
    \cup {Payload(UnknownUuid, c, S_COMPLETE) : c \in CodeSpace \cup {UnknownCode}}
    \cup {Payload(NoValue, c, S_COMPLETE) : c \in CodeSpace}
    \cup {Payload(c, c, S_COMPLETE) : c \in CodeSpace}

OrderCodes == CodeSpace \cup {UnknownCode}

\* f"GV{uuid.uuid4().hex[:10].upper()}"
TranId == "GV00000000A1"

GatewayUrl == "https://sandbox.sslcommerz.com/EasyCheckOut/session"

\* Outcomes of the init call: requests.post raises, or the response parses
\* to a status and a GatewayPageURL.
InitOutcome(raised, status, url) ==
    [raised |-> raised, status |-> status, GatewayPageURL |-> url]

InitOutcomes ==
    {InitOutcome(TRUE, <<>>, ""),
     InitOutcome(FALSE, S_SUCCESS, GatewayUrl),
     InitOutcome(FALSE, W_success, GatewayUrl),
     InitOutcome(FALSE, S_SUCCESS, ""),
     InitOutcome(FALSE, S_FAILED, GatewayUrl)}

-----------------------------------------------------------------------------
(* The state machine *)

\* The last request and its response: who sent it, the HTTP status, where a
\* redirect leads, and the code of the Order the handler acted on (carried in
\* the gateway redirect and in the rendered page).
Exchange(handler, requester, reply) ==
    [handler |-> handler, requester |-> requester, code |-> reply.code,
     location |-> reply.location, oc |-> reply.oc]

\* No request is being handled step by step.
NoRequests == <<>>

Commit(db) ==
    /\ cartItems' = db.cartItems
    /\ orders' = db.orders
    /\ payments' = db.payments

Init ==
    /\ settings \in [DEBUG : BOOLEAN, TWOCHECKOUT_BUY_LINK : BOOLEAN,
                     TWOCHECKOUT_SECRET_WORD : {NoValue},
                     REQUESTS_INSTALLED : {TRUE},
                     SSLC_STORE_ID : {TRUE}, SSLC_STORE_PASS : {TRUE},
                     FX_USD_BDT : {12500}, FX_EUR_BDT : {13000}, FX_GBP_BDT : {14000}]
    /\ cartItems = [u \in Users |-> EmptyCart]
    /\ orders = <<>>
    /\ payments = <<>>
    /\ resp = [handler |-> NoValue, requester |-> NoValue, code |-> 0,
               location |-> NoValue, oc |-> NoValue]
    /\ requests = NoRequests

CartAdd ==
    \E u \in Requesters, p \in ShopProducts, q \in 1..MaxCartQty :
        \E out \in {cart_add_view(DB, u, p, q)} :
            /\ \A v \in Users : out.db.cartItems[v][p] <= MaxCartQty
            /\ Commit(out.db)
            /\ resp' = Exchange("cart_add_view", u, out @@ [oc |-> NoValue])
            /\ UNCHANGED <<settings, requests>>

CartUpdate ==
    \E u \in Users, p \in ShopProducts, a \in {"remove", "set"}, q \in 0..MaxCartQty :
        \E out \in {cart_update_view(DB, u, p, a, q)} :
            /\ Commit(out.db)
            /\ resp' = Exchange("cart_update_view", u, out @@ [oc |-> NoValue])
            /\ UNCHANGED <<settings, requests>>

Pay2Checkout ==
    /\ Len(orders) < MaxOrders
    /\ \E u \in Requesters, code \in CodeSpace :
        \E out \in {pay_with_2checkout(DB, settings, u, code)} :
            /\ Commit(out.db)
            /\ resp' = Exchange("pay_with_2checkout", u, out)
            /\ UNCHANGED <<settings, requests>>

Webhook ==
    \E payload \in Payloads :
        \E out \in {two_co_webhook(DB, settings, payload)} :
            /\ Commit(out.db)
            /\ resp' = Exchange("two_co_webhook", NoValue, out)
            /\ UNCHANGED <<settings, requests>>

CheckoutSuccess ==
    \E r \in Requesters, oc \in OrderCodes :
        \E out \in {checkout_success(DB, r, oc)} :
            /\ Commit(out.db)
            /\ resp' = Exchange("checkout_success", r, out)
            /\ UNCHANGED <<settings, requests>>

CheckoutCancel ==
    \E r \in Requesters, oc \in OrderCodes :
        \E out \in {checkout_cancel(DB, r, oc)} :
            /\ Commit(out.db)
            /\ resp' = Exchange("checkout_cancel", r, out)
            /\ UNCHANGED <<settings, requests>>

PaySslcommerz ==
    /\ Len(orders) < MaxOrders
    /\ \E u \in Requesters, code \in CodeSpace, init \in InitOutcomes :
        \E out \in {pay_with_sslcommerz(DB, settings, u, code, TranId, init)} :
            /\ Commit(out.db)
            /\ resp' = Exchange("pay_with_sslcommerz", u, out)
            /\ UNCHANGED <<settings, requests>>

PayCoin ==
    \E u \in Requesters :
        \E out \in {pay_with_coin(DB, u)} :
            /\ Commit(out.db)
            /\ resp' = Exchange("pay_with_coin", u, out)
            /\ UNCHANGED <<settings, requests>>

Next ==
    \/ CartAdd
    \/ CartUpdate
    \/ Pay2Checkout
    \/ Webhook
    \/ CheckoutSuccess
    \/ CheckoutCancel

Spec == Init /\ [][Next]_vars

-----------------------------------------------------------------------------
(* Payment initiation over the carts of the catalogue *)

MaxLineQty == 2

\* Products whose stock is tracked or whose price is below the gateway's
\* minimum: their lines are drawn up to MaxLineQty, the others up to one.
SmallProducts == {"pD", "pE"}

\* CartItem rows of one user.  A line may exceed the stock and may name an
\* inactive product: stock and is_active change after the line was stored.
Carts ==
    {c \in [Products -> 0..MaxLineQty] : \A p \in Products \ SmallProducts : c[p] <= 1}

\* Deployments: everything configured, at several USD rates; a gateway left
\* unconfigured.
Configured(rate) ==
    [DEBUG |-> TRUE, TWOCHECKOUT_BUY_LINK |-> TRUE, TWOCHECKOUT_SECRET_WORD |-> NoValue,
     REQUESTS_INSTALLED |-> TRUE, SSLC_STORE_ID |-> TRUE, SSLC_STORE_PASS |-> TRUE,
     FX_USD_BDT |-> rate, FX_EUR_BDT |-> 13000, FX_GBP_BDT |-> 14000]

UsdRates == {12500, 12499, 12493, 0}

Deployments ==
    {Configured(r) : r \in UsdRates}
    \cup {[Configured(12500) EXCEPT !.TWOCHECKOUT_BUY_LINK = FALSE, !.SSLC_STORE_ID = FALSE],
          [Configured(12500) EXCEPT !.SSLC_STORE_PASS = FALSE],
          [Configured(12500) EXCEPT !.REQUESTS_INSTALLED = FALSE]}

CheckoutInit ==
    /\ settings \in Deployments
    /\ cartItems \in {[u \in Users |-> IF u = "alice" THEN c ELSE EmptyCart] : c \in Carts}
    /\ orders = <<>>
    /\ payments = <<>>
    /\ resp = [handler |-> NoValue, requester |-> NoValue, code |-> 0,
               location |-> NoValue, oc |-> NoValue]
    /\ requests = NoRequests

CheckoutNext ==
    \/ Pay2Checkout
    \/ PaySslcommerz
    \/ PayCoin

CheckoutSpec == CheckoutInit /\ [][CheckoutNext]_vars

-----------------------------------------------------------------------------
(* Fulfilment of one Order: files, staff toggles and payment events *)

\* request.FILES: nothing selected, files within the limit, one above it.
Uploads ==
    {NoFile,
     [name |-> "brief.pdf", size |-> 1024],
     [name |-> "brief-v2.pdf", size |-> 1024],
     [name |-> "huge.bin", size |-> MAX_UPLOAD_BYTES + 1]}

StaffUploads ==
    {NoFile,
     [name |-> "result.zip", size |-> 2048],
     [name |-> "huge.bin", size |-> MAX_UPLOAD_BYTES + 1]}

\* Item ids requested: the item of the first Order, and an id of no row.
ItemIds == {<<1, 1>>, <<1, 2>>}

\* Payloads the provider sends about the first Order.
FulfilmentPayloads ==
    {Payload(UuidSeq[1], NoValue, S_COMPLETE), Payload(UuidSeq[1], NoValue, S_declined)}

\* alice's cart when she starts the payment.
FulfilmentCart ==
    [cartItems |-> [u \in Users |-> IF u = "alice" THEN [EmptyCart EXCEPT !["pA"] = 1]
                                    ELSE EmptyCart],
     orders |-> <<>>, payments |-> <<>>]

\* The state right after alice's pay_with_2checkout.
FulfilmentInit ==
    /\ settings = Configured(12500)
    /\ \E out \in {pay_with_2checkout(FulfilmentCart, Configured(12500), "alice",
                                      "GV-0000000A")} :
        /\ cartItems = out.db.cartItems
        /\ orders = out.db.orders
        /\ payments = out.db.payments
        /\ resp = Exchange("pay_with_2checkout", "alice", out)
    /\ requests = NoRequests

\* The exchange of a file view: also the message flashed and the file streamed.
FileExchange(handler, requester, reply) ==
    Exchange(handler, requester, reply) @@ [message |-> reply.message, file |-> reply.file]

UserItemUpload ==
    \E r \in Clients, id \in ItemIds, f \in Uploads :
        \E out \in {user_item_upload_file(DB, r, id, f)} :
            /\ Commit(out.db)
            /\ resp' = FileExchange("user_item_upload_file", r, out)
            /\ UNCHANGED <<settings, requests>>

ItemUserFileDownload ==
    \E r \in Clients, id \in ItemIds :
        \E out \in {item_user_file_download(DB, r, id)} :
            /\ Commit(out.db)
            /\ resp' = FileExchange("item_user_file_download", r, out)
            /\ UNCHANGED <<settings, requests>>

StaffItemUserFileDelete ==
    \E r \in Clients, id \in ItemIds :
        \E out \in {staff_item_user_file_delete(DB, r, id)} :
            /\ Commit(out.db)
            /\ resp' = FileExchange("staff_item_user_file_delete", r, out)
            /\ UNCHANGED <<settings, requests>>

StaffItemUpload ==
    \E r \in Clients, id \in ItemIds, f \in StaffUploads :
        \E out \in {staff_item_upload_file(DB, r, id, f)} :
            /\ Commit(out.db)
            /\ resp' = FileExchange("staff_item_upload_file", r, out)
            /\ UNCHANGED <<settings, requests>>

StaffItemDelete ==
    \E r \in Clients, id \in ItemIds :
        \E out \in {staff_item_delete_file(DB, r, id)} :
            /\ Commit(out.db)
            /\ resp' = FileExchange("staff_item_delete_file", r, out)
            /\ UNCHANGED <<settings, requests>>

ItemFileDownload ==
    \E r \in Clients, id \in ItemIds :
        \E out \in {item_file_download(DB, r, id)} :
            /\ Commit(out.db)
            /\ resp' = FileExchange("item_file_download", r, out)
            /\ UNCHANGED <<settings, requests>>

StaffItemToggle ==
    \E r \in Clients, id \in ItemIds :
        \E out \in {staff_item_toggle_processing(DB, r, id)} :
            /\ Commit(out.db)
            /\ resp' = FileExchange("staff_item_toggle_processing", r, out)
            /\ UNCHANGED <<settings, requests>>

StaffOrderToggle ==
    \E r \in Clients, pk \in {UuidSeq[1], UnknownUuid} :
        \E out \in {staff_order_toggle_processing(DB, r, pk)} :
            /\ Commit(out.db)
            /\ resp' = FileExchange("staff_order_toggle_processing", r, out)
            /\ UNCHANGED <<settings, requests>>

StaffOrderUpload ==
    \E r \in Clients, pk \in {UuidSeq[1], UnknownUuid}, f \in StaffUploads :
        \E out \in {staff_order_upload_file(DB, r, pk, f)} :
            /\ Commit(out.db)
            /\ resp' = FileExchange("staff_order_upload_file", r, out)
            /\ UNCHANGED <<settings, requests>>

ProviderWebhook ==
    \E payload \in FulfilmentPayloads :
        \E out \in {two_co_webhook(DB, settings, payload)} :
            /\ Commit(out.db)
            /\ resp' = Exchange("two_co_webhook", NoValue, out)
            /\ UNCHANGED <<settings, requests>>

FulfilmentNext ==
    \/ UserItemUpload
    \/ ItemUserFileDownload
    \/ StaffItemUserFileDelete
    \/ StaffItemUpload
    \/ StaffItemDelete
    \/ ItemFileDownload
    \/ StaffItemToggle
    \/ StaffOrderToggle
    \/ StaffOrderUpload
    \/ ProviderWebhook
    \/ CheckoutSuccess
    \/ CheckoutCancel

FulfilmentSpec == FulfilmentInit /\ [][FulfilmentNext]_vars

-----------------------------------------------------------------------------
(* Two add-to-cart requests handled concurrently (_add_to_db_cart) *)

MaxAddQty == 3

\* The two requests; both are alice's, for the product pA.
Adders == {"t1", "t2"}
RaceUser == "alice"
RaceProduct == "pA"

\* A request that has not started: position and the locals of _add_to_db_cart.
IdleAdd == [pc |-> "idle", qty |-> 0, quantity |-> 0, created |-> FALSE, new_qty |-> 0]

\* requests in this specification: the committed CartItem rows of the
\* (cart, product) pair as their quantities, the quantity before the requests
\* (start), whether the two requests overlapped, and each request.
AddRequests(start) ==
    [rows |-> IF start = 0 THEN <<>> ELSE <<start>>,
     start |-> start, overlapped |-> FALSE,
     proc |-> [t \in Adders |-> IdleAdd]]

\* The transaction of request t holds the row: it selected the row for
\* update or inserted it, and has not committed.
HoldsRow(req, t) == req.proc[t].pc \in {"save", "commit"}

\* Mutant: the row is read without select_for_update.
SelectBlocked_NoRowLock(req, t) == FALSE

\* select_for_update(): the SELECT waits while another transaction holds the row.
SelectBlocked(req, t) == \E other \in Adders \ {t} : HoldsRow(req, other)

\* unique_together: an INSERT of the pair waits for another transaction's
\* uncommitted INSERT of the same pair.
InsertBlocked(req, t) ==
    \E other \in Adders \ {t} : HoldsRow(req, other) /\ req.proc[other].created

\* The first try of get_or_create: self.get(cart=cart, product=product).
GetRow(req, t) ==
    IF Len(req.rows) > 0
    THEN [req EXCEPT !.proc[t].pc = "save", !.proc[t].created = FALSE,
                     !.proc[t].quantity = req.rows[1]]
    ELSE [req EXCEPT !.proc[t].pc = "create"]

\* The second try of get_or_create: self.create(...) in a savepoint; on
\* IntegrityError the row is fetched again.  A new row has quantity 1.
CreateRow(req, t) ==
    IF Len(req.rows) > 0
    THEN [req EXCEPT !.proc[t].pc = "get"]
    ELSE [req EXCEPT !.proc[t].pc = "save", !.proc[t].created = TRUE,
                     !.proc[t].quantity = 1]

\* new_qty, clamped; item.quantity = new_qty; item.save().
SaveRow(req, t) ==
    [req EXCEPT !.proc[t].pc = "commit",
                !.proc[t].new_qty =
                    AddQty(IF req.proc[t].created THEN 0 ELSE req.proc[t].quantity,
                           RaceProduct, req.proc[t].qty)]

\* The end of `with transaction.atomic()`: the INSERT or UPDATE is committed.
CommitRow(req, t) ==
    [req EXCEPT !.proc[t].pc = "done",
                !.rows = IF req.proc[t].created THEN Append(@, req.proc[t].new_qty)
                         ELSE [@ EXCEPT ![1] = req.proc[t].new_qty]]

CartRaceInit ==
    /\ settings = Configured(12500)
    /\ \E start \in 0..Product[RaceProduct].stock :
        /\ cartItems = [u \in Users |-> IF u = RaceUser
                                        THEN [EmptyCart EXCEPT ![RaceProduct] = start]
                                        ELSE EmptyCart]
        /\ requests = AddRequests(start)
    /\ orders = <<>>
    /\ payments = <<>>
    /\ resp = [handler |-> NoValue, requester |-> NoValue, code |-> 0,
               location |-> NoValue, oc |-> NoValue]

\* cart_add_view up to the call of _add_to_db_cart.
AddBegin(t) ==
    /\ requests.proc[t].pc = "idle"
    /\ \E q \in 1..MaxAddQty :
        requests' = [requests EXCEPT
                        !.proc[t].pc = "get", !.proc[t].qty = q,
                        !.overlapped = @ \/ \E other \in Adders \ {t} :
                                              requests.proc[other].pc \notin {"idle", "done"}]
    /\ UNCHANGED <<settings, cartItems, orders, payments, resp>>

AddGet(t) ==
    /\ requests.proc[t].pc = "get"
    /\ Len(requests.rows) > 0 => ~SelectBlocked(requests, t)
    /\ requests' = GetRow(requests, t)
    /\ UNCHANGED <<settings, cartItems, orders, payments, resp>>

AddCreate(t) ==
    /\ requests.proc[t].pc = "create"
    /\ ~InsertBlocked(requests, t)
    /\ requests' = CreateRow(requests, t)
    /\ UNCHANGED <<settings, cartItems, orders, payments, resp>>

AddSave(t) ==
    /\ requests.proc[t].pc = "save"
    /\ requests' = SaveRow(requests, t)
    /\ UNCHANGED <<settings, cartItems, orders, payments, resp>>

\* The commit, and the redirect that cart_add_view returns.
AddCommit(t) ==
    /\ requests.proc[t].pc = "commit"
    /\ requests' = CommitRow(requests, t)
    /\ cartItems' = [cartItems EXCEPT ![RaceUser][RaceProduct] = requests'.rows[1]]
    /\ resp' = [handler |-> "cart_add_view", requester |-> RaceUser, code |-> 302,
                location |-> "next", oc |-> NoValue]
    /\ UNCHANGED <<settings, orders, payments>>

CartRaceNext ==
    \E t \in Adders :
        \/ AddBegin(t)
        \/ AddGet(t)
        \/ AddCreate(t)
        \/ AddSave(t)
        \/ AddCommit(t)

CartRaceSpec == CartRaceInit /\ [][CartRaceNext]_vars

-----------------------------------------------------------------------------
(* two_co_webhook and checkout_success for one Order, statement by statement *)

\* Payloads of the raced webhook, all about the first Order.
RacePayloads ==
    {Payload(UuidSeq[1], NoValue, st) : st \in {S_COMPLETE, S_declined, S_CANCELED, S_waiting}}

\* The code in the query string of the raced checkout_success.
RaceCode == "GV-0000000A"

\* requests in this specification: for the return page (s) and the webhook
\* (w), the position and the model instances the view holds in memory.
ReturnRequests(payload) ==
    [s |-> [pc |-> "get_order", order |-> NoValue, p |-> 0, pay |-> NoValue],
     w |-> [pc |-> "get_order", order |-> NoValue, p |-> 0, pay |-> NoValue,
            payload |-> payload]]

\* One statement of checkout_success.  A save writes its update_fields only,
\* from the instance read earlier.
SuccessStep(db, req) ==
    IF req.s.pc = "get_order"
    THEN [db |-> db,
          req |-> [req EXCEPT !.s.pc = "get_pay",
                              !.s.order = db.orders[OrderByCode(db, RaceCode)]]]
    ELSE IF req.s.pc = "get_pay"
    THEN [db |-> db,
          req |-> [req EXCEPT
                      !.s.p = LatestPayment(db, OrderByCode(db, RaceCode)),
                      !.s.pay = IF LatestPayment(db, OrderByCode(db, RaceCode)) = 0
                                THEN NoValue
                                ELSE db.payments[LatestPayment(db, OrderByCode(db, RaceCode))],
                      !.s.pc = IF LatestPayment(db, OrderByCode(db, RaceCode)) # 0
                                  /\ db.payments[LatestPayment(db, OrderByCode(db, RaceCode))].status
                                         \in {"processing", "created"}
                               THEN "save_pay" ELSE "render"]]
    ELSE IF req.s.pc = "save_pay"
    THEN [db |-> [db EXCEPT !.payments[req.s.p].status = "succeeded"],
          req |-> [req EXCEPT !.s.pc = "save_order"]]
    ELSE IF req.s.pc = "save_order"
    THEN [db |-> [db EXCEPT !.orders[OrderByCode(db, RaceCode)].status = "paid",
                            !.orders[OrderByCode(db, RaceCode)].processing_status = "running"],
          req |-> [req EXCEPT !.s.pc = "clear_cart"]]
    ELSE IF req.s.pc = "clear_cart"
    THEN [db |-> ClearCart(db, req.s.order.user),
          req |-> [req EXCEPT !.s.pc = "render"]]
    ELSE [db |-> db, req |-> [req EXCEPT !.s.pc = "done"]]

\* One statement of two_co_webhook (the signature is accepted: DEBUG).
WebhookStep(db, req) ==
    IF req.w.pc = "get_order"
    THEN [db |-> db,
          req |-> [req EXCEPT
                      !.w.order = [db.orders[OrderById(db, req.w.payload.merchant_order_id)]
                                   EXCEPT !.status = StatusOfText[req.w.payload.status]],
                      !.w.pc = IF StatusOfText[req.w.payload.status] = "paid"
                               THEN "clear_cart" ELSE "save_order"]]
    ELSE IF req.w.pc = "clear_cart"
    THEN [db |-> ClearCart(db, req.w.order.user),
          req |-> [req EXCEPT !.w.pc = "save_order"]]
    ELSE IF req.w.pc = "save_order"
    THEN [db |-> [db EXCEPT
                     !.orders[OrderById(db, req.w.order.id)].status = req.w.order.status,
                     !.orders[OrderById(db, req.w.order.id)].provider_order_no =
                         ProviderOrderNo(req.w.payload, req.w.order),
                     !.orders[OrderById(db, req.w.order.id)].data = {req.w.payload}],
          req |-> [req EXCEPT !.w.pc = "get_pay"]]
    ELSE IF req.w.pc = "get_pay"
    THEN [db |-> db,
          req |-> [req EXCEPT
                      !.w.p = LatestPayment(db, OrderById(db, req.w.order.id)),
                      !.w.pay = IF LatestPayment(db, OrderById(db, req.w.order.id)) = 0
                                THEN NoValue
                                ELSE db.payments[LatestPayment(db, OrderById(db, req.w.order.id))],
                      !.w.pc = IF LatestPayment(db, OrderById(db, req.w.order.id)) # 0
                                  /\ db.payments[LatestPayment(db, OrderById(db, req.w.order.id))].method
                                         \in {"stripe", "sslcommerz", "coin"}
                               THEN "save_pay" ELSE "respond"]]
    ELSE IF req.w.pc = "save_pay"
    THEN [db |-> [db EXCEPT
                     !.payments[req.w.p].status = WebhookPaymentStatus(req.w.order.status),
                     !.payments[req.w.p].provider_ref =
                         IF req.w.payload.REFNO # NoValue THEN req.w.payload.REFNO
                         ELSE req.w.pay.provider_ref,
                     !.payments[req.w.p].meta =
                         [req.w.pay.meta EXCEPT !.webhook = {req.w.payload}]],
          req |-> [req EXCEPT !.w.pc = "respond"]]
    ELSE [db |-> db, req |-> [req EXCEPT !.w.pc = "done"]]

\* The longest run of either view, in statements.
ViewSteps == 6

\* Mutant: a lock on the Order lets one view finish before the other starts.
Schedules_Serialised ==
    {[i \in 1..(2 * ViewSteps) |-> IF i <= ViewSteps THEN turn[1] ELSE turn[2]] :
        turn \in {<<"s", "w">>, <<"w", "s">>}}

\* No lock and no transaction: the statements of the two views interleave
\* in any order.  A schedule names whose statement runs next.
Schedules ==
    {f \in [1..(2 * ViewSteps) -> {"s", "w"}] :
        Cardinality({i \in 1..(2 * ViewSteps) : f[i] = "s"}) = ViewSteps}

\* The statement of view v, if it has not finished.
ViewStep(st, v) ==
    IF st.req[v].pc = "done" THEN st
    ELSE IF v = "s" THEN SuccessStep(st.db, st.req) ELSE WebhookStep(st.db, st.req)

RECURSIVE RunSchedule(_, _, _)
RunSchedule(st, sched, i) ==
    IF i > Len(sched) THEN st ELSE RunSchedule(ViewStep(st, sched[i]), sched, i + 1)

ReturnRaceInit ==
    /\ settings = Configured(12500)
    /\ \E out \in {pay_with_2checkout(FulfilmentCart, Configured(12500), "alice", RaceCode)} :
        /\ cartItems = out.db.cartItems
        /\ orders = out.db.orders
        /\ payments = out.db.payments
        /\ resp = Exchange("pay_with_2checkout", "alice", out)
    /\ \E payload \in RacePayloads : requests = ReturnRequests(payload)

SuccessStatement ==
    /\ requests.s.pc # "done"
    /\ \E out \in {SuccessStep(DB, requests)} :
        /\ Commit(out.db)
        /\ requests' = out.req
        /\ resp' = IF out.req.s.pc = "done"
                   THEN [handler |-> "checkout_success", requester |-> Anonymous,
                         code |-> 200, location |-> NoValue, oc |-> RaceCode]
                   ELSE resp
    /\ UNCHANGED settings

WebhookStatement ==
    /\ requests.w.pc # "done"
    /\ \E out \in {WebhookStep(DB, requests)} :
        /\ Commit(out.db)
        /\ requests' = out.req
        /\ resp' = IF out.req.w.pc = "done"
                   THEN [handler |-> "two_co_webhook", requester |-> NoValue,
                         code |-> 200, location |-> NoValue, oc |-> RaceCode]
                   ELSE resp
    /\ UNCHANGED settings

ReturnRaceNext ==
    \/ SuccessStatement
    \/ WebhookStatement

ReturnRaceSpec == ReturnRaceInit /\ [][ReturnRaceNext]_vars

-----------------------------------------------------------------------------
(* Properties *)

InFlight == {"processing", "created"}

CartIsEmpty(db, u) == \A p \in Products : db.cartItems[u][p] = 0

\* C1: checkout_success on an Order whose most recent Payment is processing or
\* created marks that Payment succeeded, the Order paid and running, and
\* leaves the owner's cart without items; with any other most recent Payment,
\* or without a Payment, it changes no Order, Payment or cart.
C1_CheckoutSuccessEffect ==
    \A r \in Requesters, oc \in OrderCodes :
        LET o == OrderByCode(DB, oc)
            p == LatestPayment(DB, o)
            out == checkout_success(DB, r, oc).db
        IN  o # 0 =>
              IF p # 0 /\ payments[p].status \in InFlight
              THEN /\ out.payments[p].status = "succeeded"
                   /\ out.orders[o].status = "paid"
                   /\ out.orders[o].processing_status = "running"
                   /\ CartIsEmpty(out, orders[o].user)
              ELSE out = DB

\* An Order paid by the return page alone, its owner's cart emptied.
C1_Witness ==
    /\ resp.handler = "checkout_success"
    /\ resp.code = 200
    /\ \E o \in DOMAIN orders :
         /\ orders[o].order_code = resp.oc
         /\ orders[o].status = "paid"
         /\ orders[o].processing_status = "running"
         /\ orders[o].data = {}
         /\ payments[LatestPayment(DB, o)].status = "succeeded"
         /\ CartIsEmpty(DB, orders[o].user)

\* C2: the effect of checkout_success on Orders, Payments and carts, and its
\* status code, do not depend on who sends the request.
C2_CheckoutSuccessAnyRequester ==
    \A oc \in OrderCodes, r1 \in Requesters, r2 \in Requesters :
        /\ checkout_success(DB, r1, oc).db = checkout_success(DB, r2, oc).db
        /\ checkout_success(DB, r1, oc).code = checkout_success(DB, r2, oc).code

\* The only Order was paid by the return page, and the last such request came
\* from a client who is not its owner while the owner never got a page back.
C2_Witness ==
    /\ resp.handler = "checkout_success"
    /\ resp.code = 200
    /\ Len(orders) = 1
    /\ orders[1].order_code = resp.oc
    /\ resp.requester # orders[1].user
    /\ orders[1].status = "paid"
    /\ orders[1].data = {}
    /\ payments[LatestPayment(DB, 1)].status = "succeeded"

\* C3: a verified webhook that maps to paid, applied to a pending Order, sets
\* it to paid and leaves the owner's cart without items; the same webhook
\* delivered again keeps the Order paid, the most recent Payment's status and
\* the empty cart, and is answered 200.
C3_PaidWebhookIdempotent ==
    \A payload \in Payloads :
        LET o == WebhookResolve(DB, payload).order
            first == two_co_webhook(DB, settings, payload)
            second == two_co_webhook(first.db, settings, payload)
            p == LatestPayment(DB, o)
        IN  ( /\ first.code = 200
              /\ o # 0
              /\ WebhookOrderStatus(Lower(payload.status)) = "paid"
              /\ orders[o].status = "pending" )
            => /\ first.db.orders[o].status = "paid"
               /\ CartIsEmpty(first.db, orders[o].user)
               /\ second.code = 200
               /\ second.db.orders[o].status = "paid"
               /\ CartIsEmpty(second.db, orders[o].user)
               /\ p # 0 => second.db.payments[p].status = first.db.payments[p].status

\* A paid webhook has just been applied to an Order (its payload is stored).
C3_Witness ==
    /\ resp.handler = "two_co_webhook"
    /\ resp.code = 200
    /\ \E o \in DOMAIN orders :
         /\ orders[o].order_code = resp.oc
         /\ \E w \in orders[o].data : w.status = S_COMPLETE
         /\ orders[o].status = "paid"
         /\ payments[LatestPayment(DB, o)].status = "succeeded"
         /\ CartIsEmpty(DB, orders[o].user)

\* The mapping of C4 as claimed: cancelled/canceled texts give "cancelled".
ClaimedOrderStatus(status_text) ==
    IF Contains(status_text, W_approved) \/ Contains(status_text, W_complete)
       \/ Contains(status_text, W_paid)
    THEN "paid"
    ELSE IF Contains(status_text, W_declined) \/ Contains(status_text, W_refunded)
            \/ Contains(status_text, W_failed)
    THEN "failed"
    ELSE IF Contains(status_text, W_canceled) \/ Contains(status_text, W_cancelled)
    THEN "cancelled"
    ELSE "pending"

\* C4: after a verified webhook resolves an Order, the Order's status is the
\* claimed function of the status text (paid / failed / cancelled / pending)
\* and is one of the canonical Order statuses.
C4_WebhookStatusCanonical ==
    \A o \in DOMAIN orders :
        ( /\ resp.handler = "two_co_webhook"
          /\ resp.code = 200
          /\ resp.oc = orders[o].order_code )
        => /\ \A w \in orders[o].data :
                 orders[o].status = ClaimedOrderStatus(Lower(w.status))
           /\ orders[o].status \in OrderStatuses

\* C5: checkout_cancel cancels a pending Order and an in-flight most recent
\* Payment; called again, or on an Order already paid, failed or cancelled
\* whose Payment is terminal, it changes no Order or Payment.
C5_CheckoutCancelIdempotent ==
    \A r \in Requesters, oc \in OrderCodes :
        LET o == OrderByCode(DB, oc)
            p == LatestPayment(DB, o)
            out == checkout_cancel(DB, r, oc).db
            again == checkout_cancel(out, r, oc).db
        IN  o # 0 =>
              /\ orders[o].status = "pending" => out.orders[o].status = "cancelled"
              /\ (p # 0 /\ payments[p].status \in InFlight)
                    => out.payments[p].status = "cancelled"
              /\ again.orders = out.orders
              /\ again.payments = out.payments
              /\ ( /\ orders[o].status \in {"paid", "failed", "cancelled"}
                   /\ (p = 0 \/ payments[p].status \notin InFlight) )
                    => (out.orders = orders /\ out.payments = payments)

\* The cancel page has just cancelled an Order and its Payment.
C5_Witness ==
    /\ resp.handler = "checkout_cancel"
    /\ \E o \in DOMAIN orders :
         /\ orders[o].order_code = resp.oc
         /\ orders[o].status = "cancelled"
         /\ orders[o].data = {}
         /\ payments[LatestPayment(DB, o)].status = "cancelled"

\* C6: outside debug mode every webhook (none can carry a signature the stub
\* accepts) is answered 400 and changes nothing; in debug mode no webhook is
\* rejected for its signature.
C6_WebhookSignaturePolicy ==
    \A payload \in Payloads :
        LET out == two_co_webhook(DB, settings, payload)
        IN  IF settings.DEBUG THEN out.code # 400
            ELSE out.code = 400 /\ out.db = DB

\* Outside debug mode a webhook aimed at a pending Order was answered 400.
C6_Witness ==
    /\ ~settings.DEBUG
    /\ resp.handler = "two_co_webhook"
    /\ resp.code = 400
    /\ \E o \in DOMAIN orders :
         orders[o].status = "pending" /\ orders[o].data = {}

\* C7: a webhook that passes the signature policy and whose merchant id and
\* order code resolve to no Order is answered 200 and changes nothing.
C7_UnresolvedWebhookAcknowledged ==
    \A payload \in Payloads :
        LET out == two_co_webhook(DB, settings, payload)
        IN  ( /\ settings.DEBUG
              /\ \A o \in DOMAIN orders :
                    /\ orders[o].id # payload.merchant_order_id
                    /\ orders[o].order_code # payload.order_ext_ref )
            => out.code = 200 /\ out.db = DB

\* C8: when the merchant id is absent or matches no Order, the webhook falls
\* back to the order code, and the Order so identified receives the update.
C8_WebhookFallsBackToCode ==
    \A payload \in Payloads, o \in DOMAIN orders :
        LET out == two_co_webhook(DB, settings, payload)
        IN  ( /\ settings.DEBUG
              /\ \A i \in DOMAIN orders : orders[i].id # payload.merchant_order_id
              /\ orders[o].order_code = payload.order_ext_ref )
            => /\ payload \in out.db.orders[o].data
               /\ out.db.orders[o].status = WebhookOrderStatus(Lower(payload.status))

\* C9 as claimed: a payload once present in an Order's metadata stays present
\* (a later webhook does not overwrite an earlier one).
C9_PayloadsKept ==
    [][\A o \in DOMAIN orders : orders[o].data \subseteq orders'[o].data]_vars

\* C9, amended: a verified webhook that resolves an Order stores its raw
\* payload in that Order's metadata in place of the one stored before, so the
\* metadata holds exactly the most recent payload; the metadata of the other
\* Orders is left alone.
C9_LatestPayloadStored ==
    /\ \A o \in DOMAIN orders : Cardinality(orders[o].data) <= 1
    /\ \A payload \in Payloads :
        LET o == WebhookResolve(DB, payload).order
            out == two_co_webhook(DB, settings, payload)
        IN  (settings.DEBUG /\ o # 0)
            => /\ out.db.orders[o].data = {payload}
               /\ \A i \in DOMAIN orders : i # o => out.db.orders[i].data = orders[i].data

\* A declined webhook has just been applied to an Order: the metadata holds
\* that payload and no other.
C9_Witness ==
    /\ resp.handler = "two_co_webhook"
    /\ resp.code = 200
    /\ \E o \in DOMAIN orders :
         /\ orders[o].order_code = resp.oc
         /\ orders[o].status = "failed"
         /\ orders[o].data = {Payload(orders[o].id, NoValue, S_declined)}

\* At the redirect to the gateway the Order has a processing Payment for its
\* total and currency.
C10_AtRedirect ==
    (resp.handler = "pay_with_2checkout" /\ resp.location = "gateway")
    => LET o == OrderByCode(DB, resp.oc)
           p == LatestPayment(DB, o)
       IN  /\ o # 0
           /\ p # 0
           /\ payments[p].status = "processing"
           /\ payments[p].amount = orders[o].total
           /\ payments[p].currency = orders[o].currency

\* No step takes a Payment row away from an Order that has one.
C10_PaymentRowKept ==
    \A o \in DOMAIN orders :
        LatestPayment(DB, o) # 0 => (o \in DOMAIN orders' /\ LatestPayment(DB, o)' # 0)

\* C10: when pay_with_2checkout redirects to the gateway, the Order it created
\* has a Payment with status processing for the Order's total and currency,
\* and that Order keeps a Payment row in every later step.
C10_PaymentBeforeRedirect ==
    []C10_AtRedirect /\ [][C10_PaymentRowKept]_vars

\* The gateway redirect has just been issued for a new Order.
C10_Witness ==
    /\ resp.handler = "pay_with_2checkout"
    /\ resp.location = "gateway"
    /\ \E o \in DOMAIN orders :
         /\ orders[o].order_code = resp.oc
         /\ orders[o].status = "pending"
         /\ orders[o].total > 0
         /\ payments[LatestPayment(DB, o)].status = "processing"

-----------------------------------------------------------------------------
(* Properties of payment initiation *)

\* The cart lines of user u that the snapshot keeps, and their currencies.
SurvivingLines(u) == {p \in Products : cartItems[u][p] > 0 /\ Product[p].is_active}

CartCurrencies(u) == {Product[p].currency : p \in SurvivingLines(u)}

\* Both gateways and the HTTP client are configured.
FullyConfigured ==
    /\ settings.TWOCHECKOUT_BUY_LINK
    /\ settings.REQUESTS_INSTALLED
    /\ settings.SSLC_STORE_ID
    /\ settings.SSLC_STORE_PASS

\* The Payment rows of the Order row o.
PaymentsOf(db, o) == {i \in DOMAIN db.payments : db.payments[i].order = db.orders[o].id}

\* C11: with the 2Checkout buy-link unconfigured, pay_with_2checkout, and with
\* the SSLCommerz store id or store password absent, pay_with_sslcommerz,
\* send a logged-in user back to checkout and create no Order and no Payment
\* (and the gateway is not called).
C11_UnconfiguredGatewayCreatesNothing ==
    \A u \in Users, code \in CodeSpace, init \in InitOutcomes :
        /\ ~settings.TWOCHECKOUT_BUY_LINK =>
              /\ pay_with_2checkout(DB, settings, u, code).db = DB
              /\ pay_with_2checkout(DB, settings, u, code).location = "checkout"
        /\ (~settings.SSLC_STORE_ID \/ ~settings.SSLC_STORE_PASS) =>
              LET out == pay_with_sslcommerz(DB, settings, u, code, TranId, init)
              IN  /\ out.db = DB
                  /\ out.location = "checkout"
                  /\ ~out.posted

\* A user with a cart that would make an Order was sent back to checkout by
\* pay_with_sslcommerz because the store password is absent.
C11_Witness ==
    /\ ~settings.SSLC_STORE_PASS
    /\ resp.handler = "pay_with_sslcommerz"
    /\ resp.requester \in Users
    /\ resp.location = "checkout"
    /\ Cardinality(CartCurrencies(resp.requester)) = 1
    /\ orders = <<>>
    /\ payments = <<>>

\* The rate settings give for a currency, 0 when they give none.
ConfiguredRate(currency) ==
    IF currency = "USD" THEN settings.FX_USD_BDT
    ELSE IF currency = "EUR" THEN settings.FX_EUR_BDT
    ELSE IF currency = "GBP" THEN settings.FX_GBP_BDT
    ELSE 0

\* C12: pay_with_sslcommerz for a cart whose currency is not BDT and has no
\* rate creates the Order and leaves it cancelled, creates no Payment and
\* does not call the gateway.
C12_UnsupportedCurrencyCancelsOrder ==
    \A u \in Users, code \in CodeSpace, init \in InitOutcomes, c \in {"USD", "EUR", "INR"} :
        LET out == pay_with_sslcommerz(DB, settings, u, code, TranId, init)
            n == Len(orders) + 1
        IN  ( /\ FullyConfigured
              /\ CartCurrencies(u) = {c}
              /\ ConfiguredRate(c) = 0
              /\ OrderByCode(DB, code) = 0 ) =>
                /\ Len(out.db.orders) = n
                /\ out.db.orders[n].order_code = code
                /\ out.db.orders[n].currency = c
                /\ out.db.orders[n].status = "cancelled"
                /\ SubSeq(out.db.orders, 1, n - 1) = orders
                /\ out.db.payments = payments
                /\ ~out.posted

\* An Order in INR was made by pay_with_sslcommerz and is cancelled, without
\* a Payment.
C12_Witness ==
    /\ resp.handler = "pay_with_sslcommerz"
    /\ resp.location = "checkout"
    /\ \E o \in DOMAIN orders :
         /\ orders[o].order_code = resp.oc
         /\ orders[o].currency = "INR"
         /\ orders[o].status = "cancelled"
         /\ PaymentsOf(DB, o) = {}

\* x / 10^4 rounded to hundredths, ties to the even digit.
HalfEvenCents(x) ==
    IF 2 * (x % 100) > 100 THEN (x \div 100) + 1
    ELSE IF 2 * (x % 100) < 100 THEN x \div 100
    ELSE IF (x \div 100) % 2 = 0 THEN x \div 100
    ELSE (x \div 100) + 1

\* The amount in BDT for an Order total in currency c (hundredths).
ConvertedAmount(total, c) ==
    IF c = "BDT" THEN total ELSE HalfEvenCents(total * ConfiguredRate(c))

\* C13: pay_with_sslcommerz for a cart in BDT or in a currency with a rate:
\* when the Order total times the rate, quantized to 2 decimals, is below
\* 10.00 BDT the new Order ends cancelled, no Payment is created and the
\* gateway is not called; at 10.00 or more the Order is not cancelled and the
\* init call is made.
C13_MinimumAmount ==
    \A u \in Users, code \in CodeSpace, init \in InitOutcomes, c \in {"USD", "EUR", "BDT"} :
        LET out == pay_with_sslcommerz(DB, settings, u, code, TranId, init)
            n == Len(orders) + 1
        IN  ( /\ FullyConfigured
              /\ CartCurrencies(u) = {c}
              /\ (c = "BDT" \/ ConfiguredRate(c) # 0)
              /\ OrderByCode(DB, code) = 0 ) =>
                /\ Len(out.db.orders) = n
                /\ out.db.orders[n].currency = c
                /\ IF ConvertedAmount(out.db.orders[n].total, c) < 1000
                   THEN /\ out.db.orders[n].status = "cancelled"
                        /\ out.db.payments = payments
                        /\ ~out.posted
                   ELSE /\ out.db.orders[n].status = "pending"
                        /\ out.posted

\* An Order in USD whose total converts to 9.99 BDT was made by
\* pay_with_sslcommerz and is cancelled, without a Payment.
C13_Witness ==
    /\ resp.handler = "pay_with_sslcommerz"
    /\ resp.location = "checkout"
    /\ \E o \in DOMAIN orders :
         /\ orders[o].order_code = resp.oc
         /\ orders[o].currency = "USD"
         /\ ConvertedAmount(orders[o].total, "USD") = 999
         /\ orders[o].status = "cancelled"
         /\ PaymentsOf(DB, o) = {}

\* C14: when the init call raises, or its response lacks a redirect URL or a
\* status that reads SUCCESS, pay_with_sslcommerz creates no Payment and
\* leaves the new Order pending; for SUCCESS with a redirect URL it stores
\* one Payment for that Order: processing, the converted amount, BDT.
C14_InitOutcomeDecidesPayment ==
    \A u \in Users, code \in CodeSpace, init \in InitOutcomes, c \in {"USD", "EUR", "BDT"} :
        LET out == pay_with_sslcommerz(DB, settings, u, code, TranId, init)
            n == Len(orders) + 1
            k == Len(payments) + 1
        IN  ( /\ FullyConfigured
              /\ CartCurrencies(u) = {c}
              /\ (c = "BDT" \/ ConfiguredRate(c) # 0)
              /\ OrderByCode(DB, code) = 0
              /\ out.posted ) =>
                /\ out.db.orders[n].status = "pending"
                /\ IF ~init.raised /\ init.status \in {S_SUCCESS, W_success}
                      /\ init.GatewayPageURL # ""
                   THEN /\ out.location = "gateway"
                        /\ Len(out.db.payments) = k
                        /\ SubSeq(out.db.payments, 1, k - 1) = payments
                        /\ out.db.payments[k].order = out.db.orders[n].id
                        /\ out.db.payments[k].method = "sslcommerz"
                        /\ out.db.payments[k].status = "processing"
                        /\ out.db.payments[k].currency = "BDT"
                        /\ out.db.payments[k].amount =
                               ConvertedAmount(out.db.orders[n].total, c)
                   ELSE /\ out.location = "checkout"
                        /\ out.db.payments = payments

\* pay_with_sslcommerz called the gateway for a new Order and came back to
\* checkout: the Order is pending and has no Payment.
C14_Witness ==
    /\ resp.handler = "pay_with_sslcommerz"
    /\ resp.location = "checkout"
    /\ \E o \in DOMAIN orders :
         /\ orders[o].order_code = resp.oc
         /\ orders[o].status = "pending"
         /\ ConvertedAmount(orders[o].total, orders[o].currency) >= 1000
         /\ PaymentsOf(DB, o) = {}

-----------------------------------------------------------------------------
(* Properties of the snapshot builder and the order ledger *)

\* The three payment initiators leave the database as it is for user u.
NothingCreated(u) ==
    \A code \in CodeSpace, init \in InitOutcomes :
        /\ pay_with_2checkout(DB, settings, u, code).db = DB
        /\ pay_with_sslcommerz(DB, settings, u, code, TranId, init).db = DB
        /\ pay_with_coin(DB, u).db = DB

\* C15: for a cart whose surviving lines span two or more currencies,
\* _build_cart_snapshot fails with the mixed-currency error and no payment
\* initiator creates an Order or a Payment.
C15_MixedCurrencyRejected ==
    \A u \in Users :
        Cardinality(CartCurrencies(u)) >= 2 =>
            /\ _build_cart_snapshot(DB, u).error = "Mixed currency cart is not supported"
            /\ NothingCreated(u)

\* With both gateways configured, a user whose cart holds lines in two
\* currencies asked for a payment and was sent back to the cart.
C15_Witness ==
    /\ FullyConfigured
    /\ resp.handler \in {"pay_with_2checkout", "pay_with_sslcommerz"}
    /\ resp.location = "cart_view"
    /\ resp.requester \in Users
    /\ Cardinality(CartCurrencies(resp.requester)) >= 2
    /\ orders = <<>>

\* C16: for a cart without a surviving line _build_cart_snapshot fails with
\* the empty-cart error and no payment initiator creates an Order; no stored
\* Order has an empty item list.
C16_EmptyCartRejected ==
    /\ \A u \in Users :
          SurvivingLines(u) = {} =>
              /\ _build_cart_snapshot(DB, u).error = "Cart is empty"
              /\ NothingCreated(u)
    /\ \A o \in DOMAIN orders : orders[o].items_json # <<>> /\ orders[o].items # <<>>

\* With both gateways configured, a user whose cart holds only a line of an
\* inactive product asked for a payment and was sent back to the cart.
C16_Witness ==
    /\ FullyConfigured
    /\ resp.handler \in {"pay_with_2checkout", "pay_with_sslcommerz"}
    /\ resp.location = "cart_view"
    /\ resp.requester \in Users
    /\ \E p \in Products : cartItems[resp.requester][p] > 0
    /\ SurvivingLines(resp.requester) = {}
    /\ orders = <<>>

\* The quantity the snapshot is to hold for the line of product p of user u.
ClampedQty(u, p) ==
    IF Product[p].stock > 0 THEN Min(cartItems[u][p], Product[p].stock)
    ELSE cartItems[u][p]

\* The sum of quantity times unit price over the products in S (hundredths:
\* each term has two decimals, so quantizing it changes nothing).
RECURSIVE LineTotals(_, _)
LineTotals(u, S) ==
    IF S = {} THEN 0
    ELSE LET p == CHOOSE q \in S : TRUE
         IN  ClampedQty(u, p) * Product[p].price + LineTotals(u, S \ {p})

\* The sum of the line_total values of a list of snapshot lines.
RECURSIVE StoredTotals(_)
StoredTotals(items) ==
    IF items = <<>> THEN 0 ELSE Head(items).line_total + StoredTotals(Tail(items))

\* C17: for a cart in a single currency the subtotal of the snapshot is the
\* sum of the quantized line totals (quantity times unit price) and equals
\* the sum of the line_total values of the snapshot.
C17_SubtotalIsSumOfLineTotals ==
    \A u \in Users :
        Cardinality(CartCurrencies(u)) = 1 =>
            LET snap == _build_cart_snapshot(DB, u)
            IN  /\ snap.error = NoValue
                /\ snap.subtotal = LineTotals(u, SurvivingLines(u))
                /\ snap.subtotal = StoredTotals(snap.items)

\* An Order made from a cart with two lines, one of them clamped to the stock.
C17_Witness ==
    /\ resp.location = "gateway"
    /\ \E o \in DOMAIN orders :
         /\ orders[o].order_code = resp.oc
         /\ Len(orders[o].items_json) = 2
         /\ \E i \in DOMAIN orders[o].items_json :
               orders[o].items_json[i].qty
                   < cartItems[orders[o].user][orders[o].items_json[i].product_id]
         /\ orders[o].subtotal = StoredTotals(orders[o].items_json)
         /\ orders[o].subtotal = LineTotals(orders[o].user, SurvivingLines(orders[o].user))

\* C18: the snapshot holds exactly one line for each cart line of an active
\* product; its quantity is min(cart quantity, stock) when the stock is
\* positive and the cart quantity when the stock is 0.
C18_StockClamp ==
    \A u \in Users :
        LET items == SnapshotItems(DB, u, Len(ProductOrder))
        IN  /\ {items[i].product_id : i \in DOMAIN items} = SurvivingLines(u)
            /\ Len(items) = Cardinality(SurvivingLines(u))
            /\ \A i \in DOMAIN items :
                  items[i].qty =
                      IF Product[items[i].product_id].stock > 0
                      THEN Min(cartItems[u][items[i].product_id],
                               Product[items[i].product_id].stock)
                      ELSE cartItems[u][items[i].product_id]

\* An Order holds a line of two units of a product whose stock is 0.
C18_Witness ==
    /\ resp.location = "gateway"
    /\ \E o \in DOMAIN orders :
         /\ orders[o].order_code = resp.oc
         /\ \E i \in DOMAIN orders[o].items_json :
               /\ Product[orders[o].items_json[i].product_id].stock = 0
               /\ orders[o].items_json[i].qty = 2
               /\ cartItems[orders[o].user][orders[o].items_json[i].product_id] = 2

\* C19: no two stored Orders share an order code, and a payment initiation
\* whose generated code is already stored adds no Order.
C19_OrderCodesUnique ==
    /\ \A i \in DOMAIN orders, j \in DOMAIN orders :
          orders[i].order_code = orders[j].order_code => i = j
    /\ \A u \in Users, code \in CodeSpace, init \in InitOutcomes :
          OrderByCode(DB, code) # 0 =>
              /\ _create_order_from_cart(DB, u, code).db = DB
              /\ pay_with_2checkout(DB, settings, u, code).db.orders = orders
              /\ pay_with_sslcommerz(DB, settings, u, code, TranId, init).db.orders = orders

\* With an Order stored, a user whose cart makes a valid snapshot asked for a
\* payment and was sent back to the cart: the generated code was taken.
C19_Witness ==
    /\ FullyConfigured
    /\ resp.handler \in {"pay_with_2checkout", "pay_with_sslcommerz"}
    /\ resp.location = "cart_view"
    /\ resp.requester \in Users
    /\ Cardinality(CartCurrencies(resp.requester)) = 1
    /\ Len(orders) = 1

\* C20: _create_order_from_cart stores the Order with status pending and
\* total equal to subtotal, with one OrderItem per snapshot line carrying its
\* product id, name, unit price, quantity and line total, and changes no
\* other Order, no Payment and no cart; when it raises it stores nothing.
C20_OrderCreation ==
    \A u \in Users, code \in CodeSpace :
        LET made == _create_order_from_cart(DB, u, code)
            snap == _build_cart_snapshot(DB, u)
            n == Len(orders) + 1
        IN  IF made.raised # NoValue THEN made.db = DB
            ELSE /\ made.order = n
                 /\ Len(made.db.orders) = n
                 /\ SubSeq(made.db.orders, 1, n - 1) = orders
                 /\ made.db.payments = payments
                 /\ made.db.cartItems = cartItems
                 /\ made.db.orders[n].status = "pending"
                 /\ made.db.orders[n].subtotal = snap.subtotal
                 /\ made.db.orders[n].total = made.db.orders[n].subtotal
                 /\ made.db.orders[n].items_json = snap.items
                 /\ Len(made.db.orders[n].items) = Len(snap.items)
                 /\ \A i \in DOMAIN snap.items :
                       /\ made.db.orders[n].items[i].product_id = snap.items[i].product_id
                       /\ made.db.orders[n].items[i].name = snap.items[i].name
                       /\ made.db.orders[n].items[i].unit_price = snap.items[i].unit_price
                       /\ made.db.orders[n].items[i].qty = snap.items[i].qty
                       /\ made.db.orders[n].items[i].line_total = snap.items[i].line_total

\* The second Order has just been created: it is pending with total equal
\* to subtotal and an OrderItem per line, and the first Order is as it was
\* left.
C20_Witness ==
    /\ resp.handler = "pay_with_2checkout"
    /\ resp.location = "gateway"
    /\ Len(orders) = 2
    /\ orders[2].order_code = resp.oc
    /\ orders[2].status = "pending"
    /\ orders[2].total = orders[2].subtotal
    /\ Len(orders[2].items) = 2
    /\ Len(orders[2].items_json) = 2
    /\ orders[1].status = "cancelled"

-----------------------------------------------------------------------------
(* Properties of the fulfilment file exchange (FulfilmentSpec) *)

\* The requester owns the Order of the item.
OwnsItem(r, id) == ItemFound(DB, id) /\ ItemOrder(DB, id).user = r

\* C21: user_item_upload_file stores a customer file on an OrderItem only
\* when the requester owns the Order, the Order is paid and the item's
\* user_file slot is empty; what it stores is the uploaded file, in that slot
\* and nowhere else; when the slot is already filled the upload is rejected
\* and the stored file is not replaced.
C21_UserUploadGuarded ==
    \A r \in Clients, id \in ItemIds, f \in Uploads :
        LET out == user_item_upload_file(DB, r, id, f)
        IN  /\ out.db # DB =>
                /\ OwnsItem(r, id)
                /\ ItemOrder(DB, id).status = "paid"
                /\ ItemRow(DB, id).user_file = NoValue
                /\ out.db = [DB EXCEPT !.orders[id[1]].items[id[2]].user_file = f.name]
            /\ (ItemFound(DB, id) /\ ItemRow(DB, id).user_file # NoValue) =>
                /\ out.db = DB
                /\ (OwnsItem(r, id) /\ ItemOrder(DB, id).status = "paid") =>
                       out.message = "You've already uploaded a file for this item."

\* The owner's second upload was turned away, the first file still stored.
C21_Witness ==
    /\ resp.handler = "user_item_upload_file"
    /\ resp.requester = "alice"
    /\ resp.message = "You've already uploaded a file for this item."
    /\ orders[1].status = "paid"
    /\ orders[1].items[1].user_file = "brief.pdf"

\* Staff have just removed a customer file.
UserFileJustDeleted ==
    /\ resp.handler = "staff_item_user_file_delete"
    /\ resp.message = "User file removed."

C23_FilesForStaffAndOwner ==
    \A r \in Clients, id \in ItemIds :
        /\ item_file_download(DB, r, id).file # NoValue => (r \in Staff \/ OwnsItem(r, id))
        /\ item_user_file_download(DB, r, id).file # NoValue => (r \in Staff \/ OwnsItem(r, id))
        /\ item_file_download(DB, r, id).db = DB
        /\ item_user_file_download(DB, r, id).db = DB
        /\ (r \in Users /\ ~OwnsItem(r, id)) =>
            /\ item_file_download(DB, r, id).code = 404
            /\ item_file_download(DB, r, id).file = NoValue
            /\ item_user_file_download(DB, r, id).code = 404
            /\ item_user_file_download(DB, r, id).file = NoValue
        /\ r \notin Staff =>
            /\ staff_item_user_file_delete(DB, r, id).db = DB
            /\ staff_item_delete_file(DB, r, id).db = DB
            /\ \A f \in StaffUploads : staff_item_upload_file(DB, r, id, f).db = DB

\* Another customer asked for both stored files of alice's item and got 404.
C23_Witness ==
    /\ resp.handler = "item_user_file_download"
    /\ resp.requester = "bob"
    /\ resp.code = 404
    /\ resp.file = NoValue
    /\ orders[1].user = "alice"
    /\ orders[1].items[1].user_file # NoValue
    /\ orders[1].items[1].delivery_file # NoValue

-----------------------------------------------------------------------------
(* Properties of concurrent add-to-cart requests (CartRaceSpec) *)

\* The quantity a cart line of the raced product is clamped to.
ClampedLine(x) ==
    LET stock == Product[RaceProduct].stock
        y == IF stock > 0 /\ x > stock THEN stock ELSE x
    IN  IF y > CART_MAX_PER_ITEM THEN CART_MAX_PER_ITEM ELSE IF y < 1 THEN 1 ELSE y

BothAdded == \A t \in Adders : requests.proc[t].pc = "done"

\* C24: two concurrent add-to-cart requests by the same user for the same
\* product, with quantities q1 and q2, never lose an increment: once both
\* have committed, the cart line is the clamped value of previous + q1 + q2;
\* and at every moment at most one CartItem row exists for the (cart,
\* product) pair, exactly one once a request has committed.
C24_NoLostIncrement ==
    /\ Len(requests.rows) <= 1
    /\ (\E t \in Adders : requests.proc[t].pc = "done") => Len(requests.rows) = 1
    /\ BothAdded =>
        /\ requests.rows[1] =
               ClampedLine(requests.start + requests.proc["t1"].qty + requests.proc["t2"].qty)
        /\ cartItems[RaceUser][RaceProduct] = requests.rows[1]

\* Both requests ran at the same time on an existing line, below the stock.
C24_Witness ==
    /\ BothAdded
    /\ requests.overlapped
    /\ requests.start = 1
    /\ requests.proc["t1"].qty = 1
    /\ requests.proc["t2"].qty = 2
    /\ cartItems[RaceUser][RaceProduct] = 4

-----------------------------------------------------------------------------
(* Properties of the Order and Payment status machines (Spec) *)

TerminalStatuses == {"paid", "failed", "cancelled"}

\* C25: Order.status only moves from pending to paid, failed or cancelled;
\* once an Order is paid, failed or cancelled, no checkout_success,
\* checkout_cancel or payment-initiation request changes its status: only a
\* webhook overwrites a terminal status.
C25_OrderStatusMachine ==
    [][\A i \in DOMAIN orders :
          orders'[i].status # orders[i].status =>
              \/ orders[i].status = "pending" /\ orders'[i].status \in TerminalStatuses
              \/ orders[i].status \in TerminalStatuses /\ resp'.handler = "two_co_webhook"]_vars

\* C26: at every transition of an Order into paid (by checkout_success or by
\* the webhook, whatever staff toggles or file attachments happened
\* earlier), the Order's processing_status is running right afterwards.
C26_PaidStartsRunning ==
    [][\A i \in DOMAIN orders :
          (orders[i].status # "paid" /\ orders'[i].status = "paid") =>
              orders'[i].processing_status = "running"]_vars

-----------------------------------------------------------------------------
(* Properties of the race of webhook and return page (ReturnRaceSpec) *)

\* (Order.status, status of the latest Payment) of the first Order.
StatusPair(db) == <<db.orders[1].status, db.payments[LatestPayment(db, 1)].status>>

\* The pairs the two serial orders of the whole views end in.
SerialPairs(db, payload) ==
    {StatusPair(checkout_success(two_co_webhook(db, settings, payload).db,
                                 Anonymous, RaceCode).db),
     StatusPair(two_co_webhook(checkout_success(db, Anonymous, RaceCode).db,
                               settings, payload).db)}

\* The pairs the interleavings of the statements end in.
RacePairs(db, payload) ==
    {StatusPair(RunSchedule([db |-> db, req |-> ReturnRequests(payload)], sched, 1).db) :
        sched \in Schedules}

RaceNotStarted == requests.s.pc = "get_order" /\ requests.w.pc = "get_order"
RaceOver == requests.s.pc = "done" /\ requests.w.pc = "done"

\* C27: webhook and checkout_success for the same Order are unguarded: with
\* the Order pending, its Payment processing and a webhook that does not
\* report a payment, some interleaving of their reads and writes ends in a
\* pair (Order.status, latest Payment.status) that neither serial order
\* produces; for a declined payment, Order paid with Payment cancelled.  Run
\* one after the other in either order, the statements give the result of
\* the whole views.
C27_RaceLeavesSerialOutcomes ==
    RaceNotStarted =>
        /\ SerialPairs(DB, requests.w.payload) \subseteq RacePairs(DB, requests.w.payload)
        /\ StatusOfText[requests.w.payload.status] # "paid" =>
               RacePairs(DB, requests.w.payload) \ SerialPairs(DB, requests.w.payload) # {}
        /\ requests.w.payload.status = S_declined =>
               <<"paid", "cancelled">> \in
                   RacePairs(DB, requests.w.payload) \ SerialPairs(DB, requests.w.payload)

\* Both views have answered; the Order is paid and its Payment cancelled.
C27_Witness ==
    /\ RaceOver
    /\ requests.w.payload.status = S_declined
    /\ StatusPair(DB) = <<"paid", "cancelled">>

-----------------------------------------------------------------------------
(* Properties of Orders and their Payments (Spec, CheckoutSpec) *)

\* C28: in every state reached by complete, non-interleaved executions of
\* payment initiation, checkout_success, checkout_cancel and webhook, an
\* Order that has a Payment is paid if and only if its most recent Payment
\* is succeeded.
C28_PaidIffSucceeded ==
    \A o \in DOMAIN orders :
        LatestPayment(DB, o) # 0 =>
            (orders[o].status = "paid" <=>
                 payments[LatestPayment(DB, o)].status = "succeeded")

\* One Order confirmed by the webhook, another cancelled on the return page.
C28_Witness ==
    /\ Len(orders) = 2
    /\ orders[1].status = "paid"
    /\ orders[1].data # {}
    /\ payments[LatestPayment(DB, 1)].status = "succeeded"
    /\ orders[2].status = "cancelled"
    /\ payments[LatestPayment(DB, 2)].status = "cancelled"

\* Every Order of the database db has at most one Payment, and the Orders
\* that db0 already had have the Payments they had.
PaymentsKept(db0, db) ==
    /\ \A o \in DOMAIN db.orders : Cardinality(PaymentsOf(db, o)) <= 1
    /\ \A o \in DOMAIN db0.orders :
           /\ o \in DOMAIN db.orders
           /\ db.orders[o].id = db0.orders[o].id
           /\ PaymentsOf(db, o) = PaymentsOf(db0, o)

\* Each initiation, whichever gateway and whatever the gateway answers,
\* creates at most one Order, with at most one Payment.
C29_Initiations ==
    /\ PaymentsKept(DB, DB)
    /\ \A u \in Requesters, code \in CodeSpace :
        /\ LET out == pay_with_2checkout(DB, settings, u, code).db
           IN  PaymentsKept(DB, out) /\ Len(out.orders) <= Len(orders) + 1
        /\ PaymentsKept(DB, pay_with_coin(DB, u).db)
        /\ \A init \in InitOutcomes :
            LET out == pay_with_sslcommerz(DB, settings, u, code, TranId, init).db
            IN  PaymentsKept(DB, out) /\ Len(out.orders) <= Len(orders) + 1

\* No step adds a Payment to an Order that exists.
C29_NoPaymentAdded ==
    \A o \in DOMAIN orders :
        /\ o \in DOMAIN orders'
        /\ PaymentsOf(DB, o)' = PaymentsOf(DB, o)

\* C29: every Order has at most one Payment: each payment initiation creates
\* a fresh Order with at most one Payment for it, and no operation adds a
\* Payment to an existing Order.
C29_OnePaymentPerOrder ==
    []C29_Initiations /\ [][C29_NoPaymentAdded]_vars

\* Two Orders, each with its own Payment; the first went through the webhook
\* and the return page.
C29_Witness ==
    /\ Len(orders) = 2
    /\ Len(payments) = 2
    /\ Cardinality(PaymentsOf(DB, 1)) = 1
    /\ Cardinality(PaymentsOf(DB, 2)) = 1
    /\ orders[1].data # {}
    /\ orders[1].status = "paid"
    /\ resp.handler = "pay_with_2checkout"
    /\ resp.location = "gateway"

\* The answer of the gateway that lets pay_with_sslcommerz go on.
InitAccepted == InitOutcome(FALSE, S_SUCCESS, GatewayUrl)

\* A payment initiation through the named gateway.
Initiate(db, gateway, u, code) ==
    IF gateway = "2checkout" THEN pay_with_2checkout(db, settings, u, code)
    ELSE pay_with_sslcommerz(db, settings, u, code, TranId, InitAccepted)

\* Payment initiation leaves every cart as it is, whatever its outcome.
C30_InitiationKeepsCart ==
    \A u \in Requesters, code \in CodeSpace :
        /\ pay_with_2checkout(DB, settings, u, code).db.cartItems = cartItems
        /\ pay_with_coin(DB, u).db.cartItems = cartItems
        /\ \A init \in InitOutcomes :
            pay_with_sslcommerz(DB, settings, u, code, TranId, init).db.cartItems = cartItems

\* Two initiations from the same cart that both reach the gateway create two
\* distinct pending Orders with the same line items.
C30_TwoInitiations ==
    \A u \in Users, c1 \in CodeSpace, c2 \in CodeSpace, g1 \in {"2checkout", "sslcommerz"},
       g2 \in {"2checkout", "sslcommerz"} :
        LET first == Initiate(DB, g1, u, c1)
            second == Initiate(first.db, g2, u, c2)
            n == Len(orders)
        IN  (first.location = "gateway" /\ second.location = "gateway") =>
                /\ c1 # c2
                /\ Len(second.db.orders) = n + 2
                /\ second.db.orders[n + 1].id # second.db.orders[n + 2].id
                /\ second.db.orders[n + 1].order_code = c1
                /\ second.db.orders[n + 2].order_code = c2
                /\ second.db.orders[n + 1].status = "pending"
                /\ second.db.orders[n + 2].status = "pending"
                /\ second.db.orders[n + 1].items = second.db.orders[n + 2].items
                /\ second.db.orders[n + 1].items_json = second.db.orders[n + 2].items_json
                /\ second.db.orders[n + 1].items # <<>>
                /\ second.db.cartItems = cartItems

\* A cart line is taken away only by checkout_success, by a webhook that
\* reports a payment, or by the user's own cart update.
C30_LineRemovedBy ==
    \A u \in Users, p \in Products :
        (cartItems[u][p] > 0 /\ cartItems'[u][p] = 0) =>
            \/ resp'.handler = "checkout_success"
            \/ resp'.handler = "cart_update_view" /\ resp'.requester = u
            \/ /\ resp'.handler = "two_co_webhook"
               /\ \E o \in DOMAIN orders' :
                      /\ orders'[o].order_code = resp'.oc
                      /\ orders'[o].status = "paid"
                      /\ orders'[o].user = u

\* C30: payment initiation leaves the cart unchanged whether it succeeds or
\* fails; cart lines are removed only by checkout_success, a paid-mapped
\* webhook, or the user's own cart updates; initiating twice from the same
\* cart creates two distinct pending Orders with the same line items.
C30_CartOutlivesInitiation ==
    /\ [](C30_InitiationKeepsCart /\ C30_TwoInitiations)
    /\ [][C30_LineRemovedBy]_vars
    /\ [][resp'.handler \in {"pay_with_2checkout", "pay_with_sslcommerz", "pay_with_coin"}
              => cartItems' = cartItems]_vars

\* The same cart was used for two initiations: two pending Orders with the
\* same line, the cart still filled.
C30_Witness ==
    /\ resp.handler = "pay_with_2checkout"
    /\ resp.location = "gateway"
    /\ Len(orders) = 2
    /\ orders[1].status = "pending"
    /\ orders[2].status = "pending"
    /\ orders[1].user = orders[2].user
    /\ orders[1].items = orders[2].items
    /\ orders[1].id # orders[2].id
    /\ cartItems[orders[1].user]["pA"] = 1

====
